---- MODULE Spec2Model ----
(***************************************************************************)
(* Early-error rule contexts and the early-error checker of jsparagus      *)
(* (crates/generated_parser/src/early_errors.rs and early_error_checker.rs)*)
(*                                                                         *)
(* A rule context is a record of name tables (HashMap<Name,DeclarationInfo>*)
(* in the source); every declare_* method is an operator that maps the     *)
(* context and the call's arguments to the context after the call and the  *)
(* EarlyErrorsResult the call returns.  The checker's operations map the   *)
(* recorded bindings (ContextMetadata) to the bindings after the call and  *)
(* the result.  A behaviour either drives one rule context directly, or    *)
(* drives the checker as the parser does, or parses one script.            *)
(*                                                                         *)
(* debug_assert! is modelled as in a build with debug assertions.  Labels  *)
(* and break/continue sites are not recorded in this store.                *)
(***************************************************************************)
EXTENDS Integers, Sequences, FiniteSets

VARIABLES ctx,      \* the rule context under test (type "None": none built yet),
                    \* or the statistics of a run of the driver
          prev,     \* the rule context as it was before the last call
          bindings, \* ContextMetadata: the recorded bindings, oldest first
          pbind,    \* the recorded bindings as they were before the last call
          labels,   \* ContextMetadata: the recorded labels, oldest first
          plabels,  \* the recorded labels as they were before the last call
          breaks,   \* ContextMetadata: the pending break/continue sites
          pbreaks,  \* the pending sites as they were before the last call
          call,     \* the last call and its arguments
          res,      \* what the last call returned
          noff,     \* the source offset of the next token
          parser    \* the parsing automaton fed by the last parse

vars == <<ctx, prev, bindings, pbind, labels, plabels, breaks, pbreaks,
          call, res, noff, parser>>

\* ------------------------------------------------------------------ bounds

\* Number of declare_lex / declare_var / declare calls made on one context.
MaxCalls == 3

\* Number of binding identifiers notified to the checker in one parse.
MaxBindings == 2

\* Number of declarations in a parsed script.
MaxStatements == 2

\* Number of tokens of the sources written to the parsing automaton token by
\* token (the statements of Corpus are written whole whatever their length).
MaxTokens == 3

\* The longest source text split into chunks, in characters.
MaxChars == 4

\* Number of nodes of an expression or assignment target that is refined.
MaxNodes == 5

\* Number of label identifiers and break/continue statements notified to the
\* checker in one parse.
MaxLabels == 2

\* Number of files parsed in one run of the driver.
MaxFiles == 3

\* The largest value of the file and byte counters of the driver: stand-ins
\* for usize::MAX, which no count of files reaches, and for u64::MAX, which
\* the sizes of a few sparse files add up to.
UsizeMax == 7
U64Max == 3

\* Interned names (Name<'alloc>).
Names == {"a", "b"}

\* ------------------------------------------------- HashMap<Name, DeclarationInfo>

EmptyMap == [n \in {} |-> [kind |-> "", offset |-> 0]]

\* HashMap<Name, usize>: the offsets of the exports of a module.
EmptyOffsets == [n \in {} |-> 0]

\* HashMap::contains_key / get(..).is_some()
Has(m, n) == n \in DOMAIN m

\* DeclarationInfo::new
DeclarationInfo(kind, offset) == [kind |-> kind, offset |-> offset]

\* HashMap::insert: a new entry, or the entry of an existing key overwritten.
Insert(m, n, info) == [x \in (DOMAIN m) \cup {n} |-> IF x = n THEN info ELSE m[x]]

\* ------------------------------------------------------------ ParseError

Ok == [tag |-> "Ok", name |-> "", kind1 |-> "", off1 |-> 0,
       kind2 |-> "", off2 |-> 0, msg |-> ""]

\* ParseError::DuplicateBinding(name, kind1, off1, kind2, off2)
DuplicateBinding(name, kind1, off1, kind2, off2) ==
    [tag |-> "DuplicateBinding", name |-> name, kind1 |-> kind1, off1 |-> off1,
     kind2 |-> kind2, off2 |-> off2, msg |-> ""]

\* ParseError::DuplicateExport(name, prev_offset, offset)
DuplicateExport(name, off1, off2) ==
    [tag |-> "DuplicateExport", name |-> name, kind1 |-> "", off1 |-> off1,
     kind2 |-> "", off2 |-> off2, msg |-> ""]

\* ParseError::MissingExport(name, offset)
MissingExport(name, offset) ==
    [tag |-> "MissingExport", name |-> name, kind1 |-> "", off1 |-> offset,
     kind2 |-> "", off2 |-> 0, msg |-> ""]

\* ParseError::NotImplemented(reason)
NotImplemented(msg) ==
    [tag |-> "NotImplemented", name |-> "", kind1 |-> "", off1 |-> 0,
     kind2 |-> "", off2 |-> 0, msg |-> msg]

\* ParseError::InvalidIdentifier(name, offset)
InvalidIdentifier(name, offset) ==
    [tag |-> "InvalidIdentifier", name |-> name, kind1 |-> "", off1 |-> offset,
     kind2 |-> "", off2 |-> 0, msg |-> ""]

\* ParseError::LabelledFunctionDeclInSingleStatement and the other variants
\* that carry no data.
Error(tag) ==
    [tag |-> tag, name |-> "", kind1 |-> "", off1 |-> 0,
     kind2 |-> "", off2 |-> 0, msg |-> ""]

\* panic! and a failed debug_assert!: the parse is aborted.
Panic(msg) ==
    [tag |-> "Panic", name |-> "", kind1 |-> "", off1 |-> 0,
     kind2 |-> "", off2 |-> 0, msg |-> msg]

IsErr(r) == r.tag # "Ok"

\* The pair a declare_* method leaves behind: the context and the result.
Ret(c, r) == [ctx |-> c, res |-> r]

\* ------------------------------------------------------------ rule contexts

\* One record shape for every rule context.  lex / var are the lexically and
\* var declared names of the construct, param the names bound by the
\* enclosing parameter list, catch parameter or lexical for-head, is_simple
\* the flag of FormalParameters / CatchParameter, exported_names and
\* exported_bindings the export tables of a Module.
Context(type, is_simple) ==
    [type |-> type, lex |-> EmptyMap, var |-> EmptyMap, param |-> EmptyMap,
     is_simple |-> is_simple,
     exported_names |-> EmptyOffsets, exported_bindings |-> EmptyOffsets]

NoContext == Context("None", TRUE)

\* BlockEarlyErrorsContext::new
BlockNew == Context("Block", TRUE)

\* BlockEarlyErrorsContext::is_supported_lexical
BlockIsSupportedLexical(kind) ==
    kind \in {"LexicalFunction", "LexicalAsyncOrGenerator", "Class", "Let", "Const"}

\* BlockEarlyErrorsContext::is_supported_var
BlockIsSupportedVar(kind) == kind \in {"Var", "VarForAnnexBLexicalFunction"}

\* Mutant of BlockIsStrict: the code is taken to be non-strict.
BlockIsStrictNonStrict == [ok |-> TRUE, value |-> FALSE, err |-> Ok]

\* BlockEarlyErrorsContext::is_strict: Result<bool, ParseError>
BlockIsStrict ==
    [ok |-> FALSE, value |-> FALSE,
     err |-> NotImplemented("strict-mode-only early error is not yet supported")]

\* BlockEarlyErrorsContext::declare_lex.  `self.is_strict()?` is the first
\* operand of the condition, so it is evaluated, and its error returned,
\* whenever the name is already in the lexical table.
BlockDeclareLex(c, name, kind, offset) ==
    IF Has(c.lex, name) /\ ~BlockIsStrict.ok
    THEN Ret(c, BlockIsStrict.err)
    ELSE IF Has(c.lex, name)
            /\ ~(~BlockIsStrict.value
                 /\ c.lex[name].kind = "LexicalFunction"
                 /\ kind = "LexicalFunction")
    THEN Ret(c, DuplicateBinding(name, c.lex[name].kind, c.lex[name].offset,
                                 kind, offset))
    ELSE IF Has(c.var, name)
    THEN Ret(c, DuplicateBinding(name, c.var[name].kind, c.var[name].offset,
                                 kind, offset))
    ELSE Ret([c EXCEPT !.lex = Insert(@, name, DeclarationInfo(kind, offset))], Ok)

\* Mutant of BlockDeclareVar: the lexical table is not consulted.
BlockDeclareVarNoLexCheck(c, name, kind, offset) ==
    Ret([c EXCEPT !.var = Insert(@, name, DeclarationInfo(kind, offset))], Ok)

\* Mutant of BlockDeclareVar: the name is recorded before it is checked.
BlockDeclareVarInsertFirst(c, name, kind, offset) ==
    IF Has(c.lex, name)
    THEN Ret([c EXCEPT !.var = Insert(@, name, DeclarationInfo(kind, offset))],
             DuplicateBinding(name, c.lex[name].kind, c.lex[name].offset,
                              kind, offset))
    ELSE Ret([c EXCEPT !.var = Insert(@, name, DeclarationInfo(kind, offset))], Ok)

\* BlockEarlyErrorsContext::declare_var
BlockDeclareVar(c, name, kind, offset) ==
    IF Has(c.lex, name)
    THEN Ret(c, DuplicateBinding(name, c.lex[name].kind, c.lex[name].offset,
                                 kind, offset))
    ELSE Ret([c EXCEPT !.var = Insert(@, name, DeclarationInfo(kind, offset))], Ok)

\* LexicalForHeadEarlyErrorsContext::new (bound_names_of_decl is param)
LexicalForHeadNew == Context("LexicalForHead", TRUE)

\* LexicalForHeadEarlyErrorsContext::is_supported_lexical
LexicalForHeadIsSupportedLexical(kind) == kind \in {"Let", "Const"}

\* LexicalForHeadEarlyErrorsContext::declare_lex
LexicalForHeadDeclareLex(c, name, kind, offset) ==
    IF Has(c.param, name)
    THEN Ret(c, DuplicateBinding(name, c.param[name].kind, c.param[name].offset,
                                 kind, offset))
    ELSE Ret([c EXCEPT !.param = Insert(@, name, DeclarationInfo(kind, offset))], Ok)

\* InternalForBodyEarlyErrorsContext::is_supported_var
InternalForBodyIsSupportedVar(kind) == kind = "Var"

\* InternalForBodyEarlyErrorsContext::declare_var (var_names_of_stmt is var)
InternalForBodyDeclareVar(c, name, kind, offset) ==
    Ret([c EXCEPT !.var = Insert(@, name, DeclarationInfo(kind, offset))], Ok)

\* LexicalForBodyEarlyErrorsContext::new(head): the head's table is kept.
LexicalForBodyNew(head) == [head EXCEPT !.type = "LexicalForBody"]

\* Mutant of LexicalForBodyDeclareVar: the head's names are not consulted.
LexicalForBodyDeclareVarNoHeadCheck(c, name, kind, offset) ==
    InternalForBodyDeclareVar(c, name, kind, offset)

\* LexicalForBodyEarlyErrorsContext::declare_var
LexicalForBodyDeclareVar(c, name, kind, offset) ==
    IF Has(c.param, name)
    THEN Ret(c, DuplicateBinding(name, c.param[name].kind, c.param[name].offset,
                                 kind, offset))
    ELSE InternalForBodyDeclareVar(c, name, kind, offset)

\* CaseBlockEarlyErrorsContext::new
CaseBlockNew == Context("CaseBlock", TRUE)

\* CaseBlockEarlyErrorsContext::is_supported_lexical
CaseBlockIsSupportedLexical(kind) == BlockIsSupportedLexical(kind)

\* CaseBlockEarlyErrorsContext::is_supported_var
CaseBlockIsSupportedVar(kind) == BlockIsSupportedVar(kind)

\* CaseBlockEarlyErrorsContext::is_strict
CaseBlockIsStrict ==
    [ok |-> FALSE, value |-> FALSE,
     err |-> NotImplemented("strict-mode-only early error is not yet supported")]

\* CaseBlockEarlyErrorsContext::declare_lex
CaseBlockDeclareLex(c, name, kind, offset) ==
    IF Has(c.lex, name) /\ ~CaseBlockIsStrict.ok
    THEN Ret(c, CaseBlockIsStrict.err)
    ELSE IF Has(c.lex, name)
            /\ ~(~CaseBlockIsStrict.value
                 /\ c.lex[name].kind = "LexicalFunction"
                 /\ kind = "LexicalFunction")
    THEN Ret(c, DuplicateBinding(name, c.lex[name].kind, c.lex[name].offset,
                                 kind, offset))
    ELSE IF Has(c.var, name)
    THEN Ret(c, DuplicateBinding(name, c.var[name].kind, c.var[name].offset,
                                 kind, offset))
    ELSE Ret([c EXCEPT !.lex = Insert(@, name, DeclarationInfo(kind, offset))], Ok)

\* CaseBlockEarlyErrorsContext::declare_var
CaseBlockDeclareVar(c, name, kind, offset) ==
    IF Has(c.lex, name)
    THEN Ret(c, DuplicateBinding(name, c.lex[name].kind, c.lex[name].offset,
                                 kind, offset))
    ELSE Ret([c EXCEPT !.var = Insert(@, name, DeclarationInfo(kind, offset))], Ok)

\* CatchParameterEarlyErrorsContext::new_with_binding_identifier
CatchParameterNewWithBindingIdentifier == Context("CatchParameter", TRUE)

\* CatchParameterEarlyErrorsContext::new_with_binding_pattern
CatchParameterNewWithBindingPattern == Context("CatchParameter", FALSE)

\* CatchParameterEarlyErrorsContext::declare.  The error carries the offset
\* of the call in both offset positions (`offset`, not `info.offset`).
CatchParameterDeclare(c, name, offset) ==
    IF Has(c.param, name)
    THEN Ret(c, DuplicateBinding(name, c.param[name].kind, offset,
                                 "CatchParameter", offset))
    ELSE Ret([c EXCEPT !.param =
                  Insert(@, name, DeclarationInfo("CatchParameter", offset))], Ok)

\* CatchBlockEarlyErrorsContext::new(param): block is a new Block context.
CatchBlockNew(param) == [param EXCEPT !.type = "CatchBlock"]

\* CatchBlockEarlyErrorsContext::declare_lex not looking at the catch
\* parameter.
CatchBlockDeclareLexNoParamCheck(c, name, kind, offset) ==
    BlockDeclareLex(c, name, kind, offset)

\* CatchBlockEarlyErrorsContext::declare_lex.  As in
\* CatchParameter::declare, the first offset of the error is `offset`.
CatchBlockDeclareLex(c, name, kind, offset) ==
    IF Has(c.param, name)
    THEN Ret(c, DuplicateBinding(name, c.param[name].kind, offset, kind, offset))
    ELSE BlockDeclareLex(c, name, kind, offset)

\* Mutant of CatchBlockDeclareVar: the simple-parameter exception is dropped.
CatchBlockDeclareVarNoSimpleException(c, name, kind, offset) ==
    IF Has(c.param, name)
    THEN Ret(c, DuplicateBinding(name, c.param[name].kind, c.param[name].offset,
                                 kind, offset))
    ELSE BlockDeclareVar(c, name, kind, offset)

\* CatchBlockEarlyErrorsContext::declare_var
CatchBlockDeclareVar(c, name, kind, offset) ==
    IF Has(c.param, name) /\ ~c.is_simple
    THEN Ret(c, DuplicateBinding(name, c.param[name].kind, c.param[name].offset,
                                 kind, offset))
    ELSE BlockDeclareVar(c, name, kind, offset)

\* FormalParametersEarlyErrorsContext::new_simple
FormalParametersNewSimple == Context("FormalParameters", TRUE)

\* FormalParametersEarlyErrorsContext::new_non_simple
FormalParametersNewNonSimple == Context("FormalParameters", FALSE)

\* Mutant of FormalParametersDeclare: is_simple is not consulted.
FormalParametersDeclareAlwaysUnique(c, name, offset) ==
    IF Has(c.param, name)
    THEN Ret(c, DuplicateBinding(name, c.param[name].kind, c.param[name].offset,
                                 "FormalParameter", offset))
    ELSE Ret([c EXCEPT !.param =
                  Insert(@, name, DeclarationInfo("FormalParameter", offset))], Ok)

\* FormalParametersEarlyErrorsContext::declare
FormalParametersDeclare(c, name, offset) ==
    IF Has(c.param, name) /\ ~c.is_simple
    THEN Ret(c, DuplicateBinding(name, c.param[name].kind, c.param[name].offset,
                                 "FormalParameter", offset))
    ELSE Ret([c EXCEPT !.param =
                  Insert(@, name, DeclarationInfo("FormalParameter", offset))], Ok)

\* UniqueFormalParametersEarlyErrorsContext::new
UniqueFormalParametersNew == Context("UniqueFormalParameters", TRUE)

\* Mutant of UniqueFormalParametersDeclare: duplicates are recorded, not
\* rejected.
UniqueFormalParametersDeclareNoCheck(c, name, offset) ==
    Ret([c EXCEPT !.param =
             Insert(@, name, DeclarationInfo("FormalParameter", offset))], Ok)

\* UniqueFormalParametersEarlyErrorsContext::declare
UniqueFormalParametersDeclare(c, name, offset) ==
    IF Has(c.param, name)
    THEN Ret(c, DuplicateBinding(name, c.param[name].kind, c.param[name].offset,
                                 "FormalParameter", offset))
    ELSE Ret([c EXCEPT !.param =
                  Insert(@, name, DeclarationInfo("FormalParameter", offset))], Ok)

\* InternalFunctionBodyEarlyErrorsContext::is_supported_lexical
InternalFunctionBodyIsSupportedLexical(kind) == kind \in {"Class", "Let", "Const"}

\* InternalFunctionBodyEarlyErrorsContext::is_supported_var
InternalFunctionBodyIsSupportedVar(kind) ==
    kind \in {"BodyLevelFunction", "Var", "VarForAnnexBLexicalFunction"}

\* InternalFunctionBodyEarlyErrorsContext::declare_lex
InternalFunctionBodyDeclareLex(c, name, kind, offset) ==
    IF Has(c.lex, name)
    THEN Ret(c, DuplicateBinding(name, c.lex[name].kind, c.lex[name].offset,
                                 kind, offset))
    ELSE IF Has(c.var, name)
    THEN Ret(c, DuplicateBinding(name, c.var[name].kind, c.var[name].offset,
                                 kind, offset))
    ELSE Ret([c EXCEPT !.lex = Insert(@, name, DeclarationInfo(kind, offset))], Ok)

\* InternalFunctionBodyEarlyErrorsContext::declare_var rejecting a name that
\* is already declared var-style.
InternalFunctionBodyDeclareVarOnce(c, name, kind, offset) ==
    IF Has(c.lex, name)
    THEN Ret(c, DuplicateBinding(name, c.lex[name].kind, c.lex[name].offset,
                                 kind, offset))
    ELSE IF Has(c.var, name)
    THEN Ret(c, DuplicateBinding(name, c.var[name].kind, c.var[name].offset,
                                 kind, offset))
    ELSE Ret([c EXCEPT !.var = Insert(@, name, DeclarationInfo(kind, offset))], Ok)

\* InternalFunctionBodyEarlyErrorsContext::declare_var
InternalFunctionBodyDeclareVar(c, name, kind, offset) ==
    IF Has(c.lex, name)
    THEN Ret(c, DuplicateBinding(name, c.lex[name].kind, c.lex[name].offset,
                                 kind, offset))
    ELSE Ret([c EXCEPT !.var = Insert(@, name, DeclarationInfo(kind, offset))], Ok)

\* FunctionBodyEarlyErrorsContext::new(param)
FunctionBodyNew(param) == [param EXCEPT !.type = "FunctionBody"]

\* FunctionBodyEarlyErrorsContext::declare_lex not looking at the parameters.
FunctionBodyDeclareLexNoParamCheck(c, name, kind, offset) ==
    InternalFunctionBodyDeclareLex(c, name, kind, offset)

\* FunctionBodyEarlyErrorsContext::declare_lex
FunctionBodyDeclareLex(c, name, kind, offset) ==
    IF Has(c.param, name)
    THEN Ret(c, DuplicateBinding(name, c.param[name].kind, c.param[name].offset,
                                 kind, offset))
    ELSE InternalFunctionBodyDeclareLex(c, name, kind, offset)

\* FunctionBodyEarlyErrorsContext::declare_var
FunctionBodyDeclareVar(c, name, kind, offset) ==
    InternalFunctionBodyDeclareVar(c, name, kind, offset)

\* UniqueFunctionBodyEarlyErrorsContext::new(param)
UniqueFunctionBodyNew(param) == [param EXCEPT !.type = "UniqueFunctionBody"]

\* UniqueFunctionBodyEarlyErrorsContext::declare_lex
UniqueFunctionBodyDeclareLex(c, name, kind, offset) ==
    IF Has(c.param, name)
    THEN Ret(c, DuplicateBinding(name, c.param[name].kind, c.param[name].offset,
                                 kind, offset))
    ELSE InternalFunctionBodyDeclareLex(c, name, kind, offset)

\* UniqueFunctionBodyEarlyErrorsContext::declare_var
UniqueFunctionBodyDeclareVar(c, name, kind, offset) ==
    InternalFunctionBodyDeclareVar(c, name, kind, offset)

\* ScriptEarlyErrorsContext::new
ScriptNew == Context("Script", TRUE)

\* ScriptEarlyErrorsContext::is_supported_lexical
ScriptIsSupportedLexical(kind) == kind \in {"Class", "Let", "Const"}

\* ScriptEarlyErrorsContext::is_supported_var
ScriptIsSupportedVar(kind) ==
    kind \in {"Var", "BodyLevelFunction", "VarForAnnexBLexicalFunction"}

\* Mutant of ScriptDeclareLex: the lexical table is not consulted.
ScriptDeclareLexNoLexCheck(c, name, kind, offset) ==
    IF Has(c.var, name)
    THEN Ret(c, DuplicateBinding(name, c.var[name].kind, c.var[name].offset,
                                 kind, offset))
    ELSE Ret([c EXCEPT !.lex = Insert(@, name, DeclarationInfo(kind, offset))], Ok)

\* ScriptEarlyErrorsContext::declare_lex
ScriptDeclareLex(c, name, kind, offset) ==
    IF Has(c.lex, name)
    THEN Ret(c, DuplicateBinding(name, c.lex[name].kind, c.lex[name].offset,
                                 kind, offset))
    ELSE IF Has(c.var, name)
    THEN Ret(c, DuplicateBinding(name, c.var[name].kind, c.var[name].offset,
                                 kind, offset))
    ELSE Ret([c EXCEPT !.lex = Insert(@, name, DeclarationInfo(kind, offset))], Ok)

\* ScriptEarlyErrorsContext::declare_var
ScriptDeclareVar(c, name, kind, offset) ==
    IF Has(c.lex, name)
    THEN Ret(c, DuplicateBinding(name, c.lex[name].kind, c.lex[name].offset,
                                 kind, offset))
    ELSE Ret([c EXCEPT !.var = Insert(@, name, DeclarationInfo(kind, offset))], Ok)

\* ModuleEarlyErrorsContext::new
ModuleNew == Context("Module", TRUE)

\* ModuleEarlyErrorsContext::is_supported_lexical
ModuleIsSupportedLexical(kind) ==
    kind \in {"Import", "BodyLevelFunction", "Class", "Let", "Const"}

\* ModuleEarlyErrorsContext::is_supported_var
ModuleIsSupportedVar(kind) == kind = "Var"

\* ModuleEarlyErrorsContext::declare_lex
\* ModuleEarlyErrorsContext::declare_lex with Block's tolerance of repeated
\* function declarations.
ModuleDeclareLexFunctionsTolerated(c, name, kind, offset) ==
    IF Has(c.lex, name)
       /\ ~(c.lex[name].kind = "BodyLevelFunction" /\ kind = "BodyLevelFunction")
    THEN Ret(c, DuplicateBinding(name, c.lex[name].kind, c.lex[name].offset,
                                 kind, offset))
    ELSE IF Has(c.var, name)
    THEN Ret(c, DuplicateBinding(name, c.var[name].kind, c.var[name].offset,
                                 kind, offset))
    ELSE Ret([c EXCEPT !.lex = Insert(@, name, DeclarationInfo(kind, offset))], Ok)

ModuleDeclareLex(c, name, kind, offset) ==
    IF Has(c.lex, name)
    THEN Ret(c, DuplicateBinding(name, c.lex[name].kind, c.lex[name].offset,
                                 kind, offset))
    ELSE IF Has(c.var, name)
    THEN Ret(c, DuplicateBinding(name, c.var[name].kind, c.var[name].offset,
                                 kind, offset))
    ELSE Ret([c EXCEPT !.lex = Insert(@, name, DeclarationInfo(kind, offset))], Ok)

\* ModuleEarlyErrorsContext::declare_var
ModuleDeclareVar(c, name, kind, offset) ==
    IF Has(c.lex, name)
    THEN Ret(c, DuplicateBinding(name, c.lex[name].kind, c.lex[name].offset,
                                 kind, offset))
    ELSE Ret([c EXCEPT !.var = Insert(@, name, DeclarationInfo(kind, offset))], Ok)

\* ModuleEarlyErrorsContext::add_exported_name recording the new offset of a
\* name that is exported again.
ModuleAddExportedNameOverwriting(c, name, offset) ==
    IF Has(c.exported_names, name)
    THEN Ret([c EXCEPT !.exported_names = Insert(@, name, offset)],
             DuplicateExport(name, c.exported_names[name], offset))
    ELSE Ret([c EXCEPT !.exported_names = Insert(@, name, offset)], Ok)

\* ModuleEarlyErrorsContext::add_exported_name
ModuleAddExportedName(c, name, offset) ==
    IF Has(c.exported_names, name)
    THEN Ret(c, DuplicateExport(name, c.exported_names[name], offset))
    ELSE Ret([c EXCEPT !.exported_names = Insert(@, name, offset)], Ok)

\* ModuleEarlyErrorsContext::add_exported_binding
ModuleAddExportedBinding(c, name, offset) ==
    [c EXCEPT !.exported_bindings = Insert(@, name, offset)]

\* The exported bindings that check_exported_name finds declared neither
\* var-style nor lexically.
ModuleMissingExports(c) ==
    {name \in DOMAIN c.exported_bindings : ~Has(c.var, name) /\ ~Has(c.lex, name)}

\* ModuleEarlyErrorsContext::check_exported_name: the results it can return.
\* The loop returns at the first missing name in the iteration order of the
\* HashMap, which is not specified.
ModuleCheckExportedName(c) ==
    IF ModuleMissingExports(c) = {} THEN {Ok}
    ELSE {MissingExport(name, c.exported_bindings[name]) :
            name \in ModuleMissingExports(c)}

\* ------------------------------------------- the three capability interfaces

\* Contexts implementing LexicalEarlyErrorsContext / VarEarlyErrorsContext /
\* ParameterEarlyErrorsContext.
LexicalTypes == {"Block", "CaseBlock", "LexicalForHead", "CatchBlock",
                 "FunctionBody", "UniqueFunctionBody", "Script", "Module"}
VarTypes == {"Block", "CaseBlock", "LexicalForBody", "CatchBlock",
             "FunctionBody", "UniqueFunctionBody", "Script", "Module"}
ParameterTypes == {"CatchParameter", "FormalParameters", "UniqueFormalParameters"}

\* DeclarationKind
DeclarationKinds == {"Var", "Let", "Const", "Class", "Import", "BodyLevelFunction",
                     "LexicalFunction", "LexicalAsyncOrGenerator",
                     "VarForAnnexBLexicalFunction", "FormalParameter",
                     "CatchParameter"}

\* The kinds a context's declare_lex accepts (its debug_assert!).
IsSupportedLexical(type, kind) ==
    CASE type \in {"Block", "CatchBlock"} -> BlockIsSupportedLexical(kind)
      [] type = "CaseBlock" -> CaseBlockIsSupportedLexical(kind)
      [] type = "LexicalForHead" -> LexicalForHeadIsSupportedLexical(kind)
      [] type \in {"FunctionBody", "UniqueFunctionBody"} ->
             InternalFunctionBodyIsSupportedLexical(kind)
      [] type = "Script" -> ScriptIsSupportedLexical(kind)
      [] type = "Module" -> ModuleIsSupportedLexical(kind)
      [] OTHER -> FALSE

\* The kinds a context's declare_var accepts (its debug_assert!).
IsSupportedVar(type, kind) ==
    CASE type \in {"Block", "CatchBlock"} -> BlockIsSupportedVar(kind)
      [] type = "CaseBlock" -> CaseBlockIsSupportedVar(kind)
      [] type = "LexicalForBody" -> InternalForBodyIsSupportedVar(kind)
      [] type \in {"FunctionBody", "UniqueFunctionBody"} ->
             InternalFunctionBodyIsSupportedVar(kind)
      [] type = "Script" -> ScriptIsSupportedVar(kind)
      [] type = "Module" -> ModuleIsSupportedVar(kind)
      [] OTHER -> FALSE

\* LexicalEarlyErrorsContext::declare_lex, dispatched on the implementor.
\* Every implementor starts with debug_assert!(Self::is_supported_lexical(kind)).
DeclareLexOf(c, name, kind, offset) ==
    IF ~IsSupportedLexical(c.type, kind)
    THEN Ret(c, Panic("assertion failed: Self::is_supported_lexical(kind)"))
    ELSE CASE c.type = "Block" -> BlockDeclareLex(c, name, kind, offset)
           [] c.type = "CaseBlock" -> CaseBlockDeclareLex(c, name, kind, offset)
           [] c.type = "LexicalForHead" ->
                  LexicalForHeadDeclareLex(c, name, kind, offset)
           [] c.type = "CatchBlock" -> CatchBlockDeclareLex(c, name, kind, offset)
           [] c.type = "FunctionBody" -> FunctionBodyDeclareLex(c, name, kind, offset)
           [] c.type = "UniqueFunctionBody" ->
                  UniqueFunctionBodyDeclareLex(c, name, kind, offset)
           [] c.type = "Script" -> ScriptDeclareLex(c, name, kind, offset)
           [] c.type = "Module" -> ModuleDeclareLex(c, name, kind, offset)

\* VarEarlyErrorsContext::declare_var, dispatched on the implementor.
\* Every implementor starts with debug_assert!(Self::is_supported_var(kind)).
DeclareVarOf(c, name, kind, offset) ==
    IF ~IsSupportedVar(c.type, kind)
    THEN Ret(c, Panic("assertion failed: Self::is_supported_var(kind)"))
    ELSE CASE c.type = "Block" -> BlockDeclareVar(c, name, kind, offset)
           [] c.type = "CaseBlock" -> CaseBlockDeclareVar(c, name, kind, offset)
           [] c.type = "LexicalForBody" ->
                  LexicalForBodyDeclareVar(c, name, kind, offset)
           [] c.type = "CatchBlock" -> CatchBlockDeclareVar(c, name, kind, offset)
           [] c.type = "FunctionBody" -> FunctionBodyDeclareVar(c, name, kind, offset)
           [] c.type = "UniqueFunctionBody" ->
                  UniqueFunctionBodyDeclareVar(c, name, kind, offset)
           [] c.type = "Script" -> ScriptDeclareVar(c, name, kind, offset)
           [] c.type = "Module" -> ModuleDeclareVar(c, name, kind, offset)

\* ParameterEarlyErrorsContext::declare, dispatched on the implementor.
DeclareOf(c, name, offset) ==
    CASE c.type = "CatchParameter" -> CatchParameterDeclare(c, name, offset)
      [] c.type = "FormalParameters" -> FormalParametersDeclare(c, name, offset)
      [] c.type = "UniqueFormalParameters" ->
             UniqueFormalParametersDeclare(c, name, offset)

\* ----------------------------------------------- IdentifierEarlyErrorsContext

\* Token: the terminal and the text of an identifier token.
Token(terminal_id, value) == [terminal_id |-> terminal_id, value |-> value]

\* IdentifierEarlyErrorsContext::is_strict, had it answered "non-strict".
IdentifierIsStrictNonStrict == [ok |-> TRUE, value |-> FALSE, err |-> Ok]

\* IdentifierEarlyErrorsContext::is_strict: Result<bool, ParseError>
IdentifierIsStrict ==
    [ok |-> FALSE, value |-> FALSE,
     err |-> NotImplemented("strict-mode-only early error is not yet supported")]

\* `if self.is_strict()? { return Err(e); }` followed by Ok(()).
IfStrict(e) ==
    IF ~IdentifierIsStrict.ok THEN IdentifierIsStrict.err
    ELSE IF IdentifierIsStrict.value THEN e
    ELSE Ok

\* IdentifierEarlyErrorsContext::is_arguments_identifier
IsArgumentsIdentifier(token) ==
    /\ token.terminal_id \in {"Name", "NameWithEscape"}
    /\ token.value = "arguments"

\* IdentifierEarlyErrorsContext::is_eval_identifier
IsEvalIdentifier(token) ==
    /\ token.terminal_id \in {"Name", "NameWithEscape"}
    /\ token.value = "eval"

\* IdentifierEarlyErrorsContext::is_yield_identifier
IsYieldIdentifier(token) ==
    \/ token.terminal_id = "Yield"
    \/ token.terminal_id = "NameWithEscape" /\ token.value = "yield"

\* IdentifierEarlyErrorsContext::is_await_identifier
IsAwaitIdentifier(token) ==
    \/ token.terminal_id = "Await"
    \/ token.terminal_id = "NameWithEscape" /\ token.value = "await"

\* The names check_identifier rejects in strict mode code only.
StrictReservedNames ==
    {"implements", "interface", "let", "package", "private", "protected",
     "public", "static"}

\* The names check_identifier rejects everywhere.
ReservedNames ==
    {"break", "case", "catch", "class", "const", "continue", "debugger",
     "default", "delete", "do", "else", "enum", "export", "extends", "false",
     "finally", "for", "function", "if", "import", "in", "instanceof", "new",
     "null", "return", "super", "switch", "this", "throw", "true", "try",
     "typeof", "var", "void", "while", "with"}

\* The keyword terminals check_identifier rejects in strict mode code only.
StrictReservedTerminals ==
    {"Implements", "Interface", "Let", "Package", "Private", "Protected",
     "Public", "Static"}

\* IdentifierEarlyErrorsContext::check_identifier taking a name written with
\* an escape as it takes a plain name.
CheckIdentifierEscapeIgnored(token, offset) ==
    IF token.terminal_id \in StrictReservedTerminals
    THEN IfStrict(InvalidIdentifier(token.value, offset))
    ELSE Ok

\* IdentifierEarlyErrorsContext::check_identifier
CheckIdentifier(token, offset) ==
    IF token.terminal_id = "NameWithEscape"
    THEN IF token.value \in StrictReservedNames
         THEN IfStrict(InvalidIdentifier(token.value, offset))
         ELSE IF token.value \in ReservedNames
         THEN InvalidIdentifier(token.value, offset)
         ELSE Ok
    ELSE IF token.terminal_id \in StrictReservedTerminals
    THEN IfStrict(InvalidIdentifier(token.value, offset))
    ELSE Ok

\* IdentifierEarlyErrorsContext::check_binding_identifier
CheckBindingIdentifier(token, offset) ==
    IF IsArgumentsIdentifier(token) \/ IsEvalIdentifier(token)
    THEN IfStrict(InvalidIdentifier(token.value, offset))
    ELSE IF IsYieldIdentifier(token)
    THEN NotImplemented("[Yield] parameter")
    ELSE IF IsAwaitIdentifier(token)
    THEN NotImplemented("[Await] parameter")
    ELSE CheckIdentifier(token, offset)

\* IdentifierEarlyErrorsContext::check_yield_common, with the result a
\* build without the early return would give.
CheckYieldCommonAccepts(token) == Ok

\* IdentifierEarlyErrorsContext::check_yield_common
CheckYieldCommon(token) == NotImplemented("[Yield] parameter")

\* IdentifierEarlyErrorsContext::check_await_common
CheckAwaitCommon(token) == NotImplemented("[Await] parameter")

\* IdentifierEarlyErrorsContext::check_label_identifier
CheckLabelIdentifier(token, offset) ==
    IF IsYieldIdentifier(token) THEN CheckYieldCommon(token)
    ELSE IF IsAwaitIdentifier(token) THEN CheckAwaitCommon(token)
    ELSE CheckIdentifier(token, offset)

\* IdentifierEarlyErrorsContext::check_identifier_reference
CheckIdentifierReference(token, offset) ==
    IF IsYieldIdentifier(token) THEN CheckYieldCommon(token)
    ELSE IF IsAwaitIdentifier(token) THEN CheckAwaitCommon(token)
    ELSE CheckIdentifier(token, offset)

\* The text of a keyword terminal.
TerminalText ==
    [t \in StrictReservedTerminals \cup {"Yield", "Await"} |->
       CASE t = "Implements" -> "implements" [] t = "Interface" -> "interface"
         [] t = "Let" -> "let"               [] t = "Package" -> "package"
         [] t = "Private" -> "private"       [] t = "Protected" -> "protected"
         [] t = "Public" -> "public"         [] t = "Static" -> "static"
         [] t = "Yield" -> "yield"           [] t = "Await" -> "await"]

\* The identifier tokens the lexer hands to the identifier checks: plain
\* names, names written with an escape, and the contextual keyword terminals.
IdentifierTokens ==
    {Token("Name", n) : n \in Names \cup {"arguments", "eval"}}
    \cup {Token("NameWithEscape", n) :
            n \in Names \cup {"arguments", "eval", "yield", "await"}
                  \cup StrictReservedNames \cup ReservedNames}
    \cup {Token(t, TerminalText[t]) : t \in DOMAIN TerminalText}

\* The identifier tokens given to on_binding_identifier.
BindingTokens ==
    {Token("Name", n) : n \in Names \cup {"arguments"}}
    \cup {Token("NameWithEscape", n) :
            n \in {"a", "eval", "yield", "await", "static", "class"}}
    \cup {Token("Yield", "yield"), Token("Await", "await"), Token("Let", "let")}

\* ------------------------------------------------------------ ContextMetadata

\* BindingInfo { name, offset, kind }
BindingInfo(name, offset, kind) == [name |-> name, offset |-> offset, kind |-> kind]

\* BindingKind, as far as the checker matches on it; a binding is pushed as
\* Unknown.
BindingKinds == {"Var", "Function", "AsyncOrGenerator", "Let", "Const", "Class"}

\* ContextMetadata::last_binding, as used by on_binding_identifier's
\* debug_assert!(info.offset < offset).
LastBindingBefore(bs, offset) == Len(bs) = 0 \/ bs[Len(bs)].offset < offset

\* ContextMetadata::push_binding
PushBinding(bs, info) == Append(bs, info)

\* ContextMetadata::find_first_binding: the index of the first binding at or
\* after the offset, the end of the sequence if there is none.
FindFirstBinding(bs, offset) ==
    LET S == {i \in 1..Len(bs) : bs[i].offset >= offset}
    IN  IF S = {} THEN Len(bs) + 1
        ELSE CHOOSE i \in S : \A j \in S : i <= j

\* ContextMetadata::pop_bindings_from: truncate back to the index.
PopBindingsFrom(bs, index) == SubSeq(bs, 1, index - 1)

\* pop_lexical_bindings_from as a plain truncation, which is what
\* pop_bindings_from does.
PopLexicalBindingsFromTruncating(bs, index) == SubSeq(bs, 1, index - 1)

\* A binding that outlives the block it was declared in.
IsVarBinding(info) == info.kind = "Var"

\* ContextMetadata::pop_lexical_bindings_from, called where a block-like
\* scope ends (pop_bindings_from is called where a function or script ends):
\* the bindings at or after the index are removed, the var bindings among
\* them excepted, which belong to the enclosing function or script.
PopLexicalBindingsFrom(bs, index) ==
    SubSeq(bs, 1, index - 1) \o SelectSeq(SubSeq(bs, index, Len(bs)), IsVarBinding)

\* The kind of the bindings pushed since the declaration started is set by
\* the declaration they belong to.
MarkBindingKind(bs, kind) ==
    [i \in 1..Len(bs) |->
        IF bs[i].kind = "Unknown" THEN [bs[i] EXCEPT !.kind = kind] ELSE bs[i]]

\* LabelInfo { name, offset, kind }
LabelInfo(name, offset, kind) == [name |-> name, offset |-> offset, kind |-> kind]

\* LabelKind: what the label's item is. A label is pushed as Other.
LabelKinds == {"Function", "LabelledLabel", "Other"}

\* ContextMetadata::push_label
PushLabel(ls, info) == Append(ls, info)

\* ContextMetadata::find_first_label: the index of the first label at or
\* after the offset, the end of the sequence if there is none.
FindFirstLabel(ls, offset) ==
    LET S == {i \in 1..Len(ls) : ls[i].offset >= offset}
    IN  IF S = {} THEN Len(ls) + 1
        ELSE CHOOSE i \in S : \A j \in S : i <= j

\* ContextMetadata::find_label_index_at_offset: Some(index) of the label
\* that starts at the offset, None (0) if no label starts there.
FindLabelIndexAtOffset(ls, offset) ==
    LET S == {i \in 1..Len(ls) : ls[i].offset = offset}
    IN  IF S = {} THEN 0 ELSE CHOOSE i \in S : TRUE

\* ContextMetadata::pop_labels_from: truncate back to the index.
PopLabelsFrom(ls, index) == SubSeq(ls, 1, index - 1)

\* ContextMetadata::mark_label_kind_at_offset
MarkLabelKindAtOffset(ls, offset, kind) ==
    [i \in 1..Len(ls) |->
        IF ls[i].offset = offset THEN [ls[i] EXCEPT !.kind = kind] ELSE ls[i]]

\* BreakOrContinueInfo: a break or continue statement at an offset and the
\* name of its target label ("" when it has none).
BreakOrContinueInfo(offset, label, kind) ==
    [offset |-> offset, label |-> label, kind |-> kind]

BreakOrContinueKinds == {"Break", "Continue"}

\* ContextMetadata::push_break_or_continue
PushBreakOrContinue(brs, info) == Append(brs, info)

\* ContextMetadata::find_first_break_or_continue: the index of the first site
\* at or after the offset, the end of the sequence if there is none.
FindFirstBreakOrContinue(brs, offset) ==
    LET S == {i \in 1..Len(brs) : brs[i].offset >= offset}
    IN  IF S = {} THEN Len(brs) + 1
        ELSE CHOOSE i \in S : \A j \in S : i <= j

\* ContextMetadata::pop_labelled_breaks_and_continues_from_index: the sites
\* from the index on that target the label are resolved, i.e. removed.
PopLabelledBreaksAndContinuesFromIndex(brs, index, name) ==
    LET Keep(info) == info.label # name
    IN  SubSeq(brs, 1, index - 1) \o SelectSeq(SubSeq(brs, index, Len(brs)), Keep)

\* ContextMetadata::pop_unlabelled_breaks_from: the unlabelled breaks at or
\* after the offset are handled by the enclosing switch, i.e. removed.
PopUnlabelledBreaksFrom(brs, offset) ==
    LET index == FindFirstBreakOrContinue(brs, offset)
        Keep(info) == ~(info.kind = "Break" /\ info.label = "")
    IN  SubSeq(brs, 1, index - 1) \o SelectSeq(SubSeq(brs, index, Len(brs)), Keep)

\* ------------------------------------------ LabelledStatementEarlyErrorsContext

\* LabelledStatementEarlyErrorsContext::new(name, kind). Whether the labelled
\* item is an iteration statement is not part of LabelKind; it is known to
\* the context only for the kinds Function and LabelledLabel (it is not).
LabelledStatementNew(name, kind, is_loop) ==
    [name |-> name, kind |-> kind, is_loop |-> kind = "Other" /\ is_loop]

\* LabelledStatementEarlyErrorsContext::check_duplicate_label
CheckDuplicateLabel(c, name) ==
    IF name = c.name THEN Error("DuplicateLabel") ELSE Ok

\* LabelledStatementEarlyErrorsContext::check_labelled_continue_to_non_loop
CheckLabelledContinueToNonLoopOf(c, info) ==
    IF info.kind = "Continue" /\ info.label = c.name /\ ~c.is_loop
    THEN Error("LabelledContinueToNonLoop")
    ELSE Ok

\* ControlEarlyErrorsContext::on_unhandled_break_or_continue of the script,
\* module and function body contexts: a site that reaches the end of the
\* script or function has no target.
OnUnhandledBreakOrContinue(info) == Error("UnhandledBreakOrContinue")

\* ----------------------------------------------------- early_error_checker.rs

\* What a checker operation leaves behind: the store and the result.
Out(bs, r) == [bindings |-> bs, res |-> r]

\* declare_script_or_function declaring function declarations lexically, as
\* declare_block does.
RECURSIVE DeclareScriptOrFunctionLexically(_, _, _)
DeclareScriptOrFunctionLexically(c, bs, index) ==
    IF index > Len(bs) THEN Ret(c, Ok)
    ELSE LET info == bs[index]
             r == CASE info.kind = "Var" ->
                           DeclareVarOf(c, info.name, "Var", info.offset)
                    [] info.kind = "Function" ->
                           DeclareLexOf(c, info.name, "LexicalFunction", info.offset)
                    [] info.kind = "AsyncOrGenerator" ->
                           DeclareLexOf(c, info.name, "LexicalAsyncOrGenerator",
                                        info.offset)
                    [] info.kind \in {"Let", "Const", "Class"} ->
                           DeclareLexOf(c, info.name, info.kind, info.offset)
                    [] OTHER -> Ret(c, Panic("Unexpected binding found"))
         IN  IF IsErr(r.res) THEN r
             ELSE DeclareScriptOrFunctionLexically(r.ctx, bs, index + 1)

\* declare_script_or_function over bindings_from(index): function
\* declarations are body-level.
RECURSIVE DeclareScriptOrFunction(_, _, _)
DeclareScriptOrFunction(c, bs, index) ==
    IF index > Len(bs) THEN Ret(c, Ok)
    ELSE LET info == bs[index]
             r == CASE info.kind = "Var" ->
                           DeclareVarOf(c, info.name, "Var", info.offset)
                    [] info.kind \in {"Function", "AsyncOrGenerator"} ->
                           DeclareVarOf(c, info.name, "BodyLevelFunction", info.offset)
                    [] info.kind \in {"Let", "Const", "Class"} ->
                           DeclareLexOf(c, info.name, info.kind, info.offset)
                    [] OTHER -> Ret(c, Panic("Unexpected binding found"))
         IN  IF IsErr(r.res) THEN r
             ELSE DeclareScriptOrFunction(r.ctx, bs, index + 1)

\* declare_block going on after a NotImplemented as after an Ok.
RECURSIVE DeclareBlockNotImplementedDropped(_, _, _)
DeclareBlockNotImplementedDropped(c, bs, index) ==
    IF index > Len(bs) THEN Ret(c, Ok)
    ELSE LET info == bs[index]
             r == CASE info.kind = "Var" ->
                           DeclareVarOf(c, info.name, "Var", info.offset)
                    [] info.kind = "Function" ->
                           DeclareLexOf(c, info.name, "LexicalFunction", info.offset)
                    [] info.kind = "AsyncOrGenerator" ->
                           DeclareLexOf(c, info.name, "LexicalAsyncOrGenerator",
                                        info.offset)
                    [] info.kind \in {"Let", "Const", "Class"} ->
                           DeclareLexOf(c, info.name, info.kind, info.offset)
                    [] OTHER -> Ret(c, Panic("Unexpected binding found"))
         IN  IF IsErr(r.res) /\ r.res.tag # "NotImplemented" THEN r
             ELSE DeclareBlockNotImplementedDropped(r.ctx, bs, index + 1)

\* declare_block over bindings_from(index): function declarations are lexical.
RECURSIVE DeclareBlock(_, _, _)
DeclareBlock(c, bs, index) ==
    IF index > Len(bs) THEN Ret(c, Ok)
    ELSE LET info == bs[index]
             r == CASE info.kind = "Var" ->
                           DeclareVarOf(c, info.name, "Var", info.offset)
                    [] info.kind = "Function" ->
                           DeclareLexOf(c, info.name, "LexicalFunction", info.offset)
                    [] info.kind = "AsyncOrGenerator" ->
                           DeclareLexOf(c, info.name, "LexicalAsyncOrGenerator",
                                        info.offset)
                    [] info.kind \in {"Let", "Const", "Class"} ->
                           DeclareLexOf(c, info.name, info.kind, info.offset)
                    [] OTHER -> Ret(c, Panic("Unexpected binding found"))
         IN  IF IsErr(r.res) THEN r
             ELSE DeclareBlock(r.ctx, bs, index + 1)

\* declare_param over bindings_from_to(from, to)
RECURSIVE DeclareParam(_, _, _, _)
DeclareParam(c, bs, from, to) ==
    IF from >= to \/ from > Len(bs) THEN Ret(c, Ok)
    ELSE LET info == bs[from]
             r == DeclareOf(c, info.name, info.offset)
         IN  IF IsErr(r.res) THEN r
             ELSE DeclareParam(r.ctx, bs, from + 1, to)

\* declare_lexical_for_body over bindings_from(index)
RECURSIVE DeclareLexicalForBody(_, _, _)
DeclareLexicalForBody(c, bs, index) ==
    IF index > Len(bs) THEN Ret(c, Ok)
    ELSE LET info == bs[index]
             r == IF info.kind = "Var"
                  THEN DeclareVarOf(c, info.name, "Var", info.offset)
                  ELSE Ret(c, Panic("Unexpected binding found"))
         IN  IF IsErr(r.res) THEN r
             ELSE DeclareLexicalForBody(r.ctx, bs, index + 1)

\* declare_lexical_for_head over bindings_from_to(from, to)
RECURSIVE DeclareLexicalForHead(_, _, _, _)
DeclareLexicalForHead(c, bs, from, to) ==
    IF from >= to \/ from > Len(bs) THEN Ret(c, Ok)
    ELSE LET info == bs[from]
             r == IF info.kind \in {"Let", "Const"}
                  THEN DeclareLexOf(c, info.name, info.kind, info.offset)
                  ELSE Ret(c, Panic("Unexpected binding found"))
         IN  IF IsErr(r.res) THEN r
             ELSE DeclareLexicalForHead(r.ctx, bs, from + 1, to)

\* EarlyErrorChecker::on_binding_identifier
OnBindingIdentifierOf(bs, token, offset) ==
    LET r == CheckBindingIdentifier(token, offset)
    IN  IF IsErr(r) THEN Out(bs, r)
        ELSE IF ~LastBindingBefore(bs, offset)
        THEN Out(bs, Panic("assertion failed: info.offset < offset"))
        ELSE Out(PushBinding(bs, BindingInfo(token.value, offset, "Unknown")), Ok)

\* EarlyErrorChecker::check_script_bindings
CheckScriptBindingsOf(bs) ==
    LET r == DeclareScriptOrFunction(ScriptNew, bs, 1)
    IN  IF IsErr(r.res) THEN Out(bs, r.res)
        ELSE Out(PopBindingsFrom(bs, 1), Ok)

\* EarlyErrorChecker::check_module_bindings
CheckModuleBindingsOf(bs) ==
    LET r == DeclareScriptOrFunction(ModuleNew, bs, 1)
    IN  IF IsErr(r.res) THEN Out(bs, r.res)
        ELSE Out(PopBindingsFrom(bs, 1), Ok)

\* The body of check_function_bindings and check_unique_function_bindings
\* from the parameter context on.
FunctionBindings(bs, param_context, start_of_param_offset, end_of_param_offset) ==
    LET param_index == FindFirstBinding(bs, start_of_param_offset)
        body_index == FindFirstBinding(bs, end_of_param_offset)
        p == DeclareParam(param_context, bs, param_index, body_index)
        body_context == IF param_context.type = "FormalParameters"
                        THEN FunctionBodyNew(p.ctx)
                        ELSE UniqueFunctionBodyNew(p.ctx)
        b == DeclareScriptOrFunction(body_context, bs, body_index)
    IN  IF IsErr(p.res) THEN Out(bs, p.res)
        ELSE IF IsErr(b.res) THEN Out(bs, b.res)
        ELSE Out(PopBindingsFrom(bs, param_index), Ok)

\* EarlyErrorChecker::check_function_bindings
CheckFunctionBindingsOf(bs, is_simple, start_of_param_offset, end_of_param_offset) ==
    FunctionBindings(bs,
                     IF is_simple THEN FormalParametersNewSimple
                     ELSE FormalParametersNewNonSimple,
                     start_of_param_offset, end_of_param_offset)

\* EarlyErrorChecker::check_unique_function_bindings
CheckUniqueFunctionBindingsOf(bs, start_of_param_offset, end_of_param_offset) ==
    FunctionBindings(bs, UniqueFormalParametersNew,
                     start_of_param_offset, end_of_param_offset)

\* EarlyErrorChecker::check_block_bindings
CheckBlockBindingsOf(bs, start_of_block_offset) ==
    LET index == FindFirstBinding(bs, start_of_block_offset)
        r == DeclareBlock(BlockNew, bs, index)
    IN  IF IsErr(r.res) THEN Out(bs, r.res)
        ELSE Out(PopLexicalBindingsFrom(bs, index), Ok)

\* EarlyErrorChecker::check_case_block_binding
CheckCaseBlockBindingOf(bs, start_of_block_offset) ==
    LET index == FindFirstBinding(bs, start_of_block_offset)
        r == DeclareBlock(CaseBlockNew, bs, index)
    IN  IF IsErr(r.res) THEN Out(bs, r.res)
        ELSE Out(PopLexicalBindingsFrom(bs, index), Ok)

\* EarlyErrorChecker::check_catch_bindings
CheckCatchBindingsOf(bs, is_simple, start_of_bindings_offset, end_of_bindings_offset) ==
    LET param_context == IF is_simple THEN CatchParameterNewWithBindingIdentifier
                         ELSE CatchParameterNewWithBindingPattern
        param_index == FindFirstBinding(bs, start_of_bindings_offset)
        body_index == FindFirstBinding(bs, end_of_bindings_offset)
        p == DeclareParam(param_context, bs, param_index, body_index)
        b == DeclareBlock(CatchBlockNew(p.ctx), bs, body_index)
    IN  IF IsErr(p.res) THEN Out(bs, p.res)
        ELSE IF IsErr(b.res) THEN Out(bs, b.res)
        ELSE Out(PopLexicalBindingsFrom(bs, param_index), Ok)

\* EarlyErrorChecker::check_catch_no_param_bindings
CheckCatchNoParamBindingsOf(bs, start_of_catch_offset) ==
    LET body_index == FindFirstBinding(bs, start_of_catch_offset)
        b == DeclareBlock(CatchBlockNew(CatchParameterNewWithBindingIdentifier),
                          bs, body_index)
    IN  IF IsErr(b.res) THEN Out(bs, b.res)
        ELSE Out(PopLexicalBindingsFrom(bs, body_index), Ok)

\* EarlyErrorChecker::check_lexical_for_bindings
CheckLexicalForBindingsOf(bs, start_of_bindings_offset, end_of_bindings_offset) ==
    LET head_index == FindFirstBinding(bs, start_of_bindings_offset)
        body_index == FindFirstBinding(bs, end_of_bindings_offset)
        h == DeclareLexicalForHead(LexicalForHeadNew, bs, head_index, body_index)
        b == DeclareLexicalForBody(LexicalForBodyNew(h.ctx), bs, body_index)
    IN  IF IsErr(h.res) THEN Out(bs, h.res)
        ELSE IF IsErr(b.res) THEN Out(bs, b.res)
        ELSE Out(PopLexicalBindingsFrom(bs, head_index), Ok)

\* What a checker operation leaves behind: the whole store and the result.
Store(bs, ls, brs, r) == [bindings |-> bs, labels |-> ls, breaks |-> brs, res |-> r]

\* check_labelled_continue_to_non_loop over breaks_and_continues_from(index)
RECURSIVE CheckLabelledContinueToNonLoop(_, _, _)
CheckLabelledContinueToNonLoop(brs, c, index) ==
    IF index > Len(brs) THEN Ok
    ELSE LET r == CheckLabelledContinueToNonLoopOf(c, brs[index])
         IN  IF IsErr(r) THEN r
             ELSE CheckLabelledContinueToNonLoop(brs, c, index + 1)

\* check_unhandled_break_or_continue: the first site at or after the offset,
\* if there is one, is unhandled.
CheckUnhandledBreakOrContinue(brs, offset) ==
    LET index == FindFirstBreakOrContinue(brs, offset)
    IN  IF index <= Len(brs) THEN OnUnhandledBreakOrContinue(brs[index]) ELSE Ok

\* is_labelled_function looking at the label of the statement only, without
\* unwrapping the labels it wraps.
LabelledFunctionFromNoUnwrap(ls, index) ==
    index <= Len(ls) /\ ls[index].kind = "Function"

\* The loop of is_labelled_function over labels_from(index).
RECURSIVE LabelledFunctionFrom(_, _)
LabelledFunctionFrom(ls, index) ==
    IF index > Len(ls) THEN FALSE
    ELSE IF ls[index].kind = "Function" THEN TRUE
    ELSE IF ls[index].kind = "LabelledLabel" THEN LabelledFunctionFrom(ls, index + 1)
    ELSE FALSE

\* is_labelled_function
IsLabelledFunction(ls, statement_start_offset) ==
    LET index == FindLabelIndexAtOffset(ls, statement_start_offset)
    IN  IF index # 0 THEN LabelledFunctionFrom(ls, index) ELSE FALSE

\* EarlyErrorChecker::on_label_identifier: the label is pushed before the
\* token is checked.
OnLabelIdentifierOn(bs, ls, brs, token, offset) ==
    IF ~LastBindingBefore(bs, offset)
    THEN Store(bs, ls, brs, Panic("assertion failed: info.offset < offset"))
    ELSE Store(bs, PushLabel(ls, LabelInfo(token.value, offset, "Other")), brs,
               CheckLabelIdentifier(token, offset))

\* check_labelled_statement without its loop over the labels of the body.
CheckDuplicateLabelsSkipped(ls, c, index) == Ok

\* The loop of check_labelled_statement over labels_from(next_label_index).
RECURSIVE CheckDuplicateLabels(_, _, _)
CheckDuplicateLabels(ls, c, index) ==
    IF index > Len(ls) THEN Ok
    ELSE LET r == CheckDuplicateLabel(c, ls[index].name)
         IN  IF IsErr(r) THEN r ELSE CheckDuplicateLabels(ls, c, index + 1)

\* EarlyErrorChecker::check_labelled_statement
CheckLabelledStatementOn(bs, ls, brs, name, start_of_label_offset, start_of_statement_offset, is_loop) ==
    LET at == FindLabelIndexAtOffset(ls, start_of_label_offset)
    IN  IF at = 0
        THEN Store(bs, ls, brs,
                   Panic("called Option::unwrap() on a None value"))
        ELSE
        LET context == LabelledStatementNew(name, ls[at].kind, is_loop)
            next_label_index == FindFirstLabel(ls, start_of_statement_offset)
            d == CheckDuplicateLabels(ls, context, next_label_index)
            break_or_continue_index ==
                FindFirstBreakOrContinue(brs, start_of_label_offset)
            c == CheckLabelledContinueToNonLoop(brs, context,
                                                break_or_continue_index)
        IN  IF IsErr(d) THEN Store(bs, ls, brs, d)
            ELSE IF IsErr(c) THEN Store(bs, ls, brs, c)
            ELSE Store(bs, ls,
                       PopLabelledBreaksAndContinuesFromIndex(
                           brs, break_or_continue_index, name),
                       Ok)

\* EarlyErrorChecker::check_single_statement
CheckSingleStatementOn(bs, ls, brs, statement_start_offset) ==
    IF IsLabelledFunction(ls, statement_start_offset)
    THEN Store(bs, ls, brs, Error("LabelledFunctionDeclInSingleStatement"))
    ELSE Store(bs, ls, brs, Ok)

\* check_script_bindings that leaves the labels in the store.
CheckScriptBindingsOnLabelsKept(bs, ls, brs) ==
    LET o == CheckScriptBindingsOf(bs)
    IN  IF IsErr(o.res) THEN Store(bs, ls, brs, o.res)
        ELSE Store(o.bindings, ls, brs, CheckUnhandledBreakOrContinue(brs, 0))

\* EarlyErrorChecker::check_script_bindings, the labels and the break and
\* continue sites included: they are examined after the pops.
CheckScriptBindingsOn(bs, ls, brs) ==
    LET o == CheckScriptBindingsOf(bs)
    IN  IF IsErr(o.res) THEN Store(bs, ls, brs, o.res)
        ELSE Store(o.bindings, PopLabelsFrom(ls, 1), brs,
                   CheckUnhandledBreakOrContinue(brs, 0))

\* EarlyErrorChecker::check_module_bindings, likewise.
CheckModuleBindingsOn(bs, ls, brs) ==
    LET o == CheckModuleBindingsOf(bs)
    IN  IF IsErr(o.res) THEN Store(bs, ls, brs, o.res)
        ELSE Store(o.bindings, PopLabelsFrom(ls, 1), brs,
                   CheckUnhandledBreakOrContinue(brs, 0))

\* check_function_bindings that leaves the labels of the function in the
\* store.
CheckFunctionBindingsOnLabelsKept(bs, ls, brs, is_simple, start_of_param_offset, end_of_param_offset) ==
    LET o == CheckFunctionBindingsOf(bs, is_simple, start_of_param_offset,
                                     end_of_param_offset)
        u == CheckUnhandledBreakOrContinue(brs, end_of_param_offset)
    IN  IF IsErr(o.res) THEN Store(bs, ls, brs, o.res)
        ELSE IF IsErr(u) THEN Store(bs, ls, brs, u)
        ELSE Store(o.bindings, ls, brs, Ok)

\* EarlyErrorChecker::check_function_bindings, the labels and the sites
\* included: the sites are examined before anything is popped.
CheckFunctionBindingsOn(bs, ls, brs, is_simple, start_of_param_offset, end_of_param_offset) ==
    LET o == CheckFunctionBindingsOf(bs, is_simple, start_of_param_offset,
                                     end_of_param_offset)
        u == CheckUnhandledBreakOrContinue(brs, end_of_param_offset)
    IN  IF IsErr(o.res) THEN Store(bs, ls, brs, o.res)
        ELSE IF IsErr(u) THEN Store(bs, ls, brs, u)
        ELSE Store(o.bindings,
                   PopLabelsFrom(ls, FindFirstLabel(ls, start_of_param_offset)),
                   brs, Ok)

\* EarlyErrorChecker::check_unique_function_bindings, the labels and the
\* sites included: the sites are examined after the pops.
CheckUniqueFunctionBindingsOn(bs, ls, brs, start_of_param_offset, end_of_param_offset) ==
    LET o == CheckUniqueFunctionBindingsOf(bs, start_of_param_offset,
                                           end_of_param_offset)
    IN  IF IsErr(o.res) THEN Store(bs, ls, brs, o.res)
        ELSE Store(o.bindings,
                   PopLabelsFrom(ls, FindFirstLabel(ls, start_of_param_offset)),
                   brs,
                   CheckUnhandledBreakOrContinue(brs, end_of_param_offset))

\* EarlyErrorChecker::check_case_block_binding, the sites included.
CheckCaseBlockBindingOn(bs, ls, brs, start_of_block_offset) ==
    LET o == CheckCaseBlockBindingOf(bs, start_of_block_offset)
    IN  IF IsErr(o.res) THEN Store(bs, ls, brs, o.res)
        ELSE Store(o.bindings, ls,
                   PopUnlabelledBreaksFrom(brs, start_of_block_offset), Ok)

\* ------------------------------------------------------------ parsing a script

\* The declaration keywords of the scripts parsed here.
Keywords == {"var", "let", "const", "class", "function"}

\* A script: a sequence of declarations `keyword name;`.
Declaration(keyword, name) == [keyword |-> keyword, name |-> name]

\* The scripts of n declarations.
RECURSIVE ScriptsOfLen(_)
ScriptsOfLen(n) ==
    IF n = 0 THEN {<<>>}
    ELSE {Append(s, Declaration(k, x)) :
            s \in ScriptsOfLen(n - 1), k \in Keywords, x \in Names}

Scripts == UNION {ScriptsOfLen(n) : n \in 1..MaxStatements}

\* The binding kind a declaration gives to the names it binds.
BindingKindOf(keyword) ==
    CASE keyword = "var" -> "Var"
      [] keyword = "let" -> "Let"
      [] keyword = "const" -> "Const"
      [] keyword = "class" -> "Class"
      [] keyword = "function" -> "Function"

\* The parser on a statement that starts with `let`: telling the declaration
\* from the identifier takes more than one token of lookahead, which is not
\* implemented (tests.rs: assert_not_implemented("let a = 1;")).
LetLookahead == NotImplemented("let (multitoken lookahead)")

\* Parsing a script: the declarations from the i-th on are parsed in source
\* order, each notifying its binding identifier, and the script's bindings
\* are checked at the end; the first error ends the parse.
RECURSIVE ParseScriptFrom(_, _, _)
ParseScriptFrom(bs, src, i) ==
    IF i > Len(src) THEN CheckScriptBindingsOf(bs)
    ELSE IF src[i].keyword = "let" THEN Out(bs, LetLookahead)
    ELSE LET o == OnBindingIdentifierOf(bs, Token("Name", src[i].name), i)
         IN  IF IsErr(o.res) THEN o
             ELSE ParseScriptFrom(MarkBindingKind(o.bindings,
                                                  BindingKindOf(src[i].keyword)),
                                  src, i + 1)

\* ------------------------------------------- refining expressions to patterns

\* An AST node: its variant, its children in source order, and the rest
\* target of an array or object assignment target (<<>>: none).
Node(t, kids, rest) == [t |-> t, kids |-> kids, rest |-> rest]

Leaf(t) == Node(t, <<>>, <<>>)

\* The sorts of AST:
\*   expr    Expression
\*   elem    ArrayExpressionElement (an expression stands for itself)
\*   prop    ObjectProperty
\*   target  AssignmentTarget
\*   maybe   AssignmentTargetMaybeDefault (a target stands for itself)
\*   telem   Option<AssignmentTargetMaybeDefault>
\*   tprop   AssignmentTargetProperty
\*   list    the expression of a parenthesized arrow parameter list
Sorts == {"expr", "elem", "prop", "target", "maybe", "telem", "tprop", "list"}

\* The ASTs of n nodes of a sort in a table of the ASTs by sort and size.
Sized(tbl, sort, n) == IF n \in 1..Len(tbl[sort]) THEN tbl[sort][n] ELSE {}

\* The sequences of ASTs of a sort with n nodes in all.
RECURSIVE ForestsIn(_, _, _)
ForestsIn(tbl, sort, n) ==
    IF n = 0 THEN {<<>>}
    ELSE UNION {{<<t>> \o f : t \in Sized(tbl, sort, k),
                              f \in ForestsIn(tbl, sort, n - k)} :
                k \in 1..n}

\* An optional rest target of n nodes (n = 0: none).
RestsIn(tbl, n) ==
    IF n = 0 THEN {<<>>} ELSE {<<t>> : t \in Sized(tbl, "target", n)}

\* The expressions of n nodes over a table of the ASTs of fewer nodes.
ExpressionsIn(tbl, n) ==
    (IF n = 1 THEN {Leaf("IdentifierExpression"), Leaf("LiteralExpression")}
     ELSE {})
    \cup {Node("ArrayExpression", f, <<>>) : f \in ForestsIn(tbl, "elem", n - 1)}
    \cup {Node("ObjectExpression", f, <<>>) : f \in ForestsIn(tbl, "prop", n - 1)}
    \cup {Node("AssignmentExpression", <<t>>, <<>>) :
            t \in Sized(tbl, "target", n - 1)}

\* The assignment targets of n nodes over a table of the ASTs of fewer nodes.
TargetsIn(tbl, n) ==
    (IF n = 1 THEN {Leaf("AssignmentTargetIdentifier"),
                    Leaf("MemberAssignmentTarget")}
     ELSE {})
    \cup UNION {{Node("ArrayAssignmentTarget", f, r) :
                   f \in ForestsIn(tbl, "telem", k),
                   r \in RestsIn(tbl, n - 1 - k)} : k \in 0..(n - 1)}
    \cup UNION {{Node("ObjectAssignmentTarget", f, r) :
                   f \in ForestsIn(tbl, "tprop", k),
                   r \in RestsIn(tbl, n - 1 - k)} : k \in 0..(n - 1)}

\* The parameter-list expressions of n nodes: an expression, or a comma
\* expression of a shorter list and an expression.
ListsIn(tbl, n) ==
    ExpressionsIn(tbl, n)
    \cup UNION {{Node("Comma", <<l, r>>, <<>>) :
                   l \in Sized(tbl, "list", k),
                   r \in Sized(tbl, "expr", n - 1 - k)} : k \in 1..(n - 2)}

\* The table of the ASTs of fewer than n nodes, extended by those of n nodes.
WithSize(tbl, n) ==
    LET expr == ExpressionsIn(tbl, n)
        elem ==
            expr
            \cup {Node("SpreadElement", <<e>>, <<>>) : e \in Sized(tbl, "expr", n - 1)}
            \cup (IF n = 1 THEN {Leaf("Elision")} ELSE {})
        prop ==
            {Node("DataProperty", <<e>>, <<>>) : e \in Sized(tbl, "expr", n - 1)}
            \cup {Node("SpreadProperty", <<e>>, <<>>) : e \in Sized(tbl, "expr", n - 1)}
            \cup (IF n = 1 THEN {Leaf("MethodDefinition"), Leaf("ShorthandProperty")}
                  ELSE {})
        target == TargetsIn(tbl, n)
        maybe ==
            target
            \cup {Node("AssignmentTargetWithDefault", <<t>>, <<>>) :
                    t \in Sized(tbl, "target", n - 1)}
        telem == maybe \cup (IF n = 1 THEN {Leaf("None")} ELSE {})
        tprop ==
            (IF n = 1 THEN {Leaf("AssignmentTargetPropertyIdentifier")} ELSE {})
            \cup {Node("AssignmentTargetPropertyProperty", <<m>>, <<>>) :
                    m \in Sized(tbl, "maybe", n - 1)}
        list == ListsIn(tbl, n)
    IN  [sort \in Sorts |->
           Append(tbl[sort],
                  CASE sort = "expr" -> expr     [] sort = "elem" -> elem
                    [] sort = "prop" -> prop     [] sort = "target" -> target
                    [] sort = "maybe" -> maybe   [] sort = "telem" -> telem
                    [] sort = "tprop" -> tprop   [] sort = "list" -> list)]

\* The table of the ASTs of up to max nodes, built from size n on.
RECURSIVE TableFrom(_, _, _)
TableFrom(tbl, n, max) ==
    IF n > max THEN tbl ELSE TableFrom(WithSize(tbl, n), n + 1, max)

\* The parameter-list expressions of up to max nodes.
ListsUpTo(max) ==
    LET tbl == TableFrom([sort \in Sorts |-> <<>>], 1, max - 1)
    IN  UNION {Sized(tbl, "list", n) : n \in 1..(max - 1)} \cup ListsIn(tbl, max)

\* The assignment targets of up to max nodes.
TargetsUpTo(max) ==
    LET tbl == TableFrom([sort \in Sorts |-> <<>>], 1, max - 1)
    IN  UNION {Sized(tbl, "target", n) : n \in 1..(max - 1)} \cup TargetsIn(tbl, max)

\* EarlyErrorBuilder::collect_vec_from_results: the first error, if any.
CollectVecFromResults(results) ==
    LET E == {i \in 1..Len(results) : IsErr(results[i])}
    IN  IF E = {} THEN Ok
        ELSE results[CHOOSE i \in E : \A j \in E : i <= j]

\* EarlyErrorBuilder::spread_expression_to_rest_binding taking any operand.
SpreadExpressionToRestBindingAny(expression) == Ok

\* EarlyErrorBuilder::spread_expression_to_rest_binding
SpreadExpressionToRestBinding(expression) ==
    IF expression.t = "IdentifierExpression" THEN Ok
    ELSE Error("ObjectBindingPatternWithInvalidRest")

\* EarlyErrorBuilder::assignment_rest_property_to_binding_identifier
AssignmentRestPropertyToBindingIdentifier(target) ==
    IF target.t = "AssignmentTargetIdentifier" THEN Ok
    ELSE Error("ObjectBindingPatternWithInvalidRest")

RECURSIVE AssignmentTargetToBinding(_)
RECURSIVE ExpressionToBindingNoDefault(_)

\* EarlyErrorBuilder::assignment_target_maybe_default_to_binding
AssignmentTargetMaybeDefaultToBinding(target) ==
    IF target.t = "AssignmentTargetWithDefault"
    THEN AssignmentTargetToBinding(target.kids[1])
    ELSE AssignmentTargetToBinding(target)

\* EarlyErrorBuilder::assignment_target_property_to_binding_property
AssignmentTargetPropertyToBindingProperty(target) ==
    IF target.t = "AssignmentTargetPropertyIdentifier" THEN Ok
    ELSE AssignmentTargetMaybeDefaultToBinding(target.kids[1])

\* EarlyErrorBuilder::assignment_target_to_binding, with a member target
\* accepted as a parameter binding.
AssignmentTargetToBindingMemberOk(target) == Ok

\* EarlyErrorBuilder::assignment_target_to_binding
AssignmentTargetToBinding(target) ==
    CASE target.t = "AssignmentTargetIdentifier" -> Ok
      [] target.t = "MemberAssignmentTarget" -> Error("InvalidParameter")
      [] target.t = "ArrayAssignmentTarget" ->
           LET elements == target.kids
               e == CollectVecFromResults(
                        [i \in 1..Len(elements) |->
                           IF elements[i].t = "None" THEN Ok
                           ELSE AssignmentTargetMaybeDefaultToBinding(elements[i])])
           IN  IF IsErr(e) THEN e
               ELSE IF target.rest # <<>>
               THEN AssignmentTargetToBinding(target.rest[1])
               ELSE Ok
      [] target.t = "ObjectAssignmentTarget" ->
           LET properties == target.kids
               e == CollectVecFromResults(
                        [i \in 1..Len(properties) |->
                           AssignmentTargetPropertyToBindingProperty(properties[i])])
           IN  IF IsErr(e) THEN e
               ELSE IF target.rest # <<>>
               THEN AssignmentRestPropertyToBindingIdentifier(target.rest[1])
               ELSE Ok

\* EarlyErrorBuilder::expression_to_parameter and
\* unboxed_expression_to_parameter
ExpressionToParameter(expression) ==
    IF expression.t = "AssignmentExpression"
    THEN AssignmentTargetToBinding(expression.kids[1])
    ELSE ExpressionToBindingNoDefault(expression)

\* EarlyErrorBuilder::expression_to_parameter_array
ExpressionToParameterArray(expression) ==
    IF expression.t = "AssignmentExpression"
    THEN LET r == AssignmentTargetToBinding(expression.kids[1])
         IN  IF IsErr(r) THEN r ELSE Error("ArrayBindingPatternWithInvalidRest")
    ELSE ExpressionToBindingNoDefault(expression)

\* EarlyErrorBuilder::object_property_to_binding_property
ObjectPropertyToBindingProperty(op) ==
    CASE op.t = "DataProperty" -> ExpressionToParameter(op.kids[1])
      [] op.t = "MethodDefinition" -> Error("ObjectPatternWithMethod")
      [] op.t = "ShorthandProperty" -> Ok
      [] op.t = "SpreadProperty" -> Error("ObjectPatternWithNonFinalRest")

\* EarlyErrorBuilder::object_expression_to_object_binding: split_last()
\* takes the last property off; it is looked at only if it is a spread.
ObjectExpressionToObjectBinding(object) ==
    LET properties == object.kids
        n == Len(properties)
    IN  IF n = 0 THEN Ok
        ELSE LET e == CollectVecFromResults(
                          [i \in 1..(n - 1) |->
                             ObjectPropertyToBindingProperty(properties[i])])
             IN  IF IsErr(e) THEN e
                 ELSE IF properties[n].t = "SpreadProperty"
                 THEN SpreadExpressionToRestBinding(properties[n].kids[1])
                 ELSE Ok

\* EarlyErrorBuilder::expression_to_binding_no_default: split_last() takes
\* the last element off; it is looked at only if it is a spread.
ExpressionToBindingNoDefault(expression) ==
    CASE expression.t = "IdentifierExpression" -> Ok
      [] expression.t = "ArrayExpression" ->
           LET elements == expression.kids
               n == Len(elements)
           IN  IF n = 0 THEN Ok
               ELSE LET e == CollectVecFromResults(
                                 [i \in 1..(n - 1) |->
                                    CASE elements[i].t = "SpreadElement" ->
                                           Error("ArrayPatternWithNonFinalRest")
                                      [] elements[i].t = "Elision" -> Ok
                                      [] OTHER -> ExpressionToParameter(elements[i])])
                    IN  IF IsErr(e) THEN e
                        ELSE IF elements[n].t = "SpreadElement"
                        THEN ExpressionToParameterArray(elements[n].kids[1])
                        ELSE Ok
      [] expression.t = "ObjectExpression" ->
           ObjectExpressionToObjectBinding(expression)
      [] OTHER -> Error("InvalidParameter")

\* EarlyErrorBuilder::expression_to_parameter_list
RECURSIVE ExpressionToParameterList(_)
ExpressionToParameterList(expression) ==
    IF expression.t = "Comma"
    THEN LET l == ExpressionToParameterList(expression.kids[1])
         IN  IF IsErr(l) THEN l ELSE ExpressionToParameter(expression.kids[2])
    ELSE ExpressionToParameter(expression)

\* EarlyErrorBuilder::uncover_arrow_parameters
UncoverArrowParametersOf(covered) ==
    IF covered.t = "Parameters" THEN Ok
    ELSE ExpressionToParameterList(covered.kids[1])

\* EarlyErrorBuilder::expression_to_simple_assignment_target2 with a call
\* expression taken as a simple target.
ExpressionToSimpleAssignmentTarget2CallOk(expression) ==
    IF expression.t \in {"IdentifierExpression", "StaticMemberExpression",
                         "ComputedMemberExpression", "CallExpression"}
    THEN Ok
    ELSE Error("InvalidAssignmentTarget")

\* EarlyErrorBuilder::expression_to_simple_assignment_target2
ExpressionToSimpleAssignmentTarget2(expression) ==
    CASE expression.t \in {"IdentifierExpression", "StaticMemberExpression",
                           "ComputedMemberExpression"} -> Ok
      [] expression.t = "CallExpression" ->
           NotImplemented("Assignment to CallExpression is allowed for non-strict mode.")
      [] OTHER -> Error("InvalidAssignmentTarget")

\* ------------------------------------------------------------------ demo.rs

\* DemoStats::new (Default)
DemoStatsNew == [files_attempted |-> 0, files_parsed |-> 0, total_bytes |-> 0]

\* DemoStats::new_single
DemoStatsNewSingle(size_bytes, success) ==
    [files_attempted |-> 1,
     files_parsed |-> IF success THEN 1 ELSE 0,
     total_bytes |-> size_bytes]

\* DemoStats::add that leaves files_parsed as it is.
DemoStatsAddParsedDropped(self, other, overflow_checks) ==
    [stats |-> [self EXCEPT
                  !.files_attempted = (@ + other.files_attempted) % (UsizeMax + 1),
                  !.total_bytes = (@ + other.total_bytes) % (U64Max + 1)],
     res |-> Ok]

\* DemoStats::add: three `+=` in turn.  With overflow checks (a debug build)
\* the first sum out of range panics; without them (a release build) the
\* sums wrap.
DemoStatsAdd(self, other, overflow_checks) ==
    LET files_attempted == self.files_attempted + other.files_attempted
        files_parsed == self.files_parsed + other.files_parsed
        total_bytes == self.total_bytes + other.total_bytes
        overflow == Panic("attempt to add with overflow")
    IN  IF overflow_checks /\ files_attempted > UsizeMax
        THEN [stats |-> self, res |-> overflow]
        ELSE IF overflow_checks /\ files_parsed > UsizeMax
        THEN [stats |-> [self EXCEPT !.files_attempted = files_attempted],
              res |-> overflow]
        ELSE IF overflow_checks /\ total_bytes > U64Max
        THEN [stats |-> [self EXCEPT !.files_attempted = files_attempted,
                                     !.files_parsed = files_parsed],
              res |-> overflow]
        ELSE [stats |-> [files_attempted |-> files_attempted % (UsizeMax + 1),
                         files_parsed |-> files_parsed % (UsizeMax + 1),
                         total_bytes |-> total_bytes % (U64Max + 1)],
              res |-> Ok]

\* ------------------------------------------------------------------ actions

\* ------------------------------------------------- the parsing automaton
\* (spec.md 4.1 and 6; the generated tables, the lexer and the AST builder
\* are not under src/. The automaton is given for a statement grammar:
\* expression statements over names, numbers, + and ++, blocks, labelled
\* statements, while (true) loops, break, continue, return, throw and
\* function declarations.)

\* TerminalId of the statement grammar. WhileHead stands for `while (true)`,
\* FunctionHead for `function f()`, Yield for the keyword used as a name.
Terminals ==
    {"Num", "Name", "Plus", "Incr", "Semi", "OpenBrace", "CloseBrace", "Colon",
     "WhileHead", "Break", "Continue", "Return", "Throw", "FunctionHead", "Yield"}

\* Token { terminal_id, value, is_on_new_line, loc }: is_on_new_line tells
\* whether a line terminator lies between the token before and this one.
SourceToken(t, value, nl, offset) ==
    [terminal_id |-> t, value |-> value, is_on_new_line |-> nl, offset |-> offset]

\* A statement of the syntax tree: its variant, the label it declares or
\* jumps to, the statements it holds, the offset of its first token and the
\* tokens of its expression.
Statement(t, label, body, offset, expr) ==
    [t |-> t, label |-> label, body |-> body, offset |-> offset, expr |-> expr]

NoStatement == Statement("None", "", <<>>, 0, <<>>)

\* An open construct on the automaton's stack: a statement list being
\* collected (Script, Block, FunctionBody), or a label or loop head that
\* waits for its statement.
Frame(kind, name, offset) ==
    [kind |-> kind, name |-> name, offset |-> offset, items |-> <<>>]

ListFrames == {"Script", "Block", "FunctionBody"}

\* Parser::new(builder, START_STATE_SCRIPT): the stack, the position in the
\* statement in progress, the statement in progress, the labels and the
\* break and continue sites of the builder's ContextMetadata, the tokens
\* written, and the error that ended the parse.
ParserNew ==
    [frames |-> <<Frame("Script", "", 0)>>, mode |-> "Start", cur |-> NoStatement,
     labels |-> <<>>, breaks |-> <<>>, written |-> <<>>, error |-> Ok]

\* What an operation of the automaton leaves behind and returns.
Step(p, r) == [parser |-> p, res |-> r]

\* Ok(true) and Ok(false).
OkBool(b) == [Ok EXCEPT !.msg = IF b THEN "true" ELSE "false"]

\* The unlabelled break and continue sites at or after the offset are
\* handled by the enclosing loop, i.e. removed.
PopUnlabelledBreaksAndContinuesFrom(brs, offset) ==
    LET index == FindFirstBreakOrContinue(brs, offset)
        Keep(info) == info.label # ""
    IN  SubSeq(brs, 1, index - 1) \o SelectSeq(SubSeq(brs, index, Len(brs)), Keep)

\* The reductions that follow a finished statement: a loop head or a label
\* that waited for it takes it as its body (and is finished in turn), a
\* statement list appends it.
RECURSIVE Attach(_, _)
RECURSIVE AttachLabelled(_, _, _)
Attach(p, s) ==
    LET n == Len(p.frames)
        top == p.frames[n]
        rest == SubSeq(p.frames, 1, n - 1)
    IN  CASE top.kind = "While" ->
                 Attach([p EXCEPT !.frames = rest,
                                  !.breaks = PopUnlabelledBreaksAndContinuesFrom(
                                                 @, top.offset)],
                        Statement("WhileStatement", "", <<s>>, top.offset, <<>>))
          [] top.kind = "Label" ->
                 AttachLabelled(p, s,
                                CheckLabelledStatementOn(
                                    <<>>, p.labels, p.breaks, top.name, top.offset,
                                    s.offset, s.t = "WhileStatement"))
          [] OTHER ->
                 Step([p EXCEPT !.frames[n].items = Append(@, s),
                                !.mode = "Start", !.cur = NoStatement], Ok)

\* The label on top of the stack takes the statement as its body, once
\* check_labelled_statement has returned st.
AttachLabelled(p, s, st) ==
    LET n == Len(p.frames)
        top == p.frames[n]
    IN  IF IsErr(st.res) THEN Step(p, st.res)
        ELSE Attach([p EXCEPT !.frames = SubSeq(p.frames, 1, n - 1),
                              !.labels = st.labels, !.breaks = st.breaks],
                    Statement("LabelledStatement", top.name, <<s>>, top.offset, <<>>))

\* The statement in progress is finished (its terminator was given or is
\* inserted): a break or continue is recorded as a site, and the statement
\* is reduced.
Complete(p) ==
    LET s == p.cur
    IN  Attach([p EXCEPT !.breaks =
                   IF s.t \in {"BreakStatement", "ContinueStatement"}
                   THEN PushBreakOrContinue(
                            @, BreakOrContinueInfo(
                                   s.offset, s.label,
                                   IF s.t = "BreakStatement" THEN "Break"
                                   ELSE "Continue"))
                   ELSE @],
               s)

\* The token is shifted into the expression of the statement in progress.
Shift(p, tok, mode) ==
    Step([p EXCEPT !.cur.expr = Append(@, tok), !.mode = mode], Ok)

\* A statement of the given variant is begun at the token.
Begin(p, t, tok, mode) ==
    Step([p EXCEPT !.cur = Statement(t, "", <<>>, tok.offset, <<>>), !.mode = mode],
         Ok)

\* A construct is opened at the token.
Open(p, kind, name, offset) ==
    Step([p EXCEPT !.frames = Append(@, Frame(kind, name, offset)),
                   !.mode = "Start", !.cur = NoStatement], Ok)

\* The token cannot be shifted and no terminator can be inserted before it.
Rejected(p) == Step(p, Error("SyntaxError"))

\* `}` where a statement may begin: it closes the innermost block or
\* function body. A function body is checked by check_function_bindings,
\* which for a function without bindings examines the sites
\* (check_unhandled_break_or_continue) and pops the labels of the function.
CloseBraceOf(p, tok) ==
    LET n == Len(p.frames)
        top == p.frames[n]
        rest == SubSeq(p.frames, 1, n - 1)
        unhandled == CheckUnhandledBreakOrContinue(p.breaks, top.offset)
    IN  CASE top.kind = "Block" ->
                 Attach([p EXCEPT !.frames = rest],
                        Statement("BlockStatement", "", top.items, top.offset, <<>>))
          [] top.kind = "FunctionBody" /\ IsErr(unhandled) -> Step(p, unhandled)
          [] top.kind = "FunctionBody" /\ ~IsErr(unhandled) ->
                 Attach([p EXCEPT !.frames = rest,
                                  !.labels = PopLabelsFrom(
                                                 @, FindFirstLabel(@, top.offset))],
                        Statement("FunctionDeclaration", "", top.items, top.offset,
                                  <<>>))
          [] OTHER -> Rejected(p)

\* A function body is open somewhere on the stack.
InFunction(p) == \E i \in 1..Len(p.frames) : p.frames[i].kind = "FunctionBody"

\* The token begins an expression.
BeginExpression(p, t, tok) ==
    CASE tok.terminal_id \in {"Num", "Name"} ->
             Shift(Begin(p, t, tok, "Start").parser, tok, "AfterOperand")
      [] tok.terminal_id = "Yield" ->
             Shift(Begin(p, t, tok, "Start").parser, tok, "AfterYield")
      [] tok.terminal_id \in {"Incr", "Plus"} ->
             Shift(Begin(p, t, tok, "Start").parser, tok, "NeedOperand")
      [] OTHER -> Rejected(p)

\* The token where a statement may begin.
StartOf(p, tok) ==
    LET t == tok.terminal_id
    IN  CASE t \in {"Num", "Name", "Incr", "Plus", "Yield"} ->
                 BeginExpression(p, "ExpressionStatement", tok)
          [] t = "Semi" ->
                 Attach(p, Statement("EmptyStatement", "", <<>>, tok.offset, <<>>))
          [] t = "OpenBrace" -> Open(p, "Block", "", tok.offset)
          [] t = "CloseBrace" -> CloseBraceOf(p, tok)
          [] t = "WhileHead" -> Open(p, "While", "", tok.offset)
          [] t = "Break" -> Begin(p, "BreakStatement", tok, "AfterJump")
          [] t = "Continue" -> Begin(p, "ContinueStatement", tok, "AfterJump")
          [] t = "Return" ->
                 IF InFunction(p) THEN Begin(p, "ReturnStatement", tok, "AfterReturn")
                 ELSE Rejected(p)
          [] t = "Throw" -> Begin(p, "ThrowStatement", tok, "AfterThrow")
          [] t = "FunctionHead" ->
                 IF p.frames[Len(p.frames)].kind \in ListFrames
                 THEN Begin(p, "FunctionDeclaration", tok, "AfterFunctionHead")
                 ELSE Rejected(p)
          [] OTHER -> Rejected(p)

\* The token after a step c that finished a statement.
Resume(c, tok) == IF IsErr(c.res) THEN c ELSE StartOf(c.parser, tok)

\* Automatic semicolon insertion before a token that cannot be shifted: the
\* terminator of the statement in progress is elided when the token is
\* preceded by a line terminator or is `}`; the token then stands where a
\* statement may begin.
Elide(p, tok) ==
    IF tok.is_on_new_line \/ tok.terminal_id = "CloseBrace"
    THEN Resume(Complete(p), tok)
    ELSE Rejected(p)

\* The label waits for its statement, once on_label_identifier has returned
\* st.
Labelled(p, name, st) ==
    IF IsErr(st.res) THEN Step(p, st.res)
    ELSE Open([p EXCEPT !.labels = st.labels], "Label", name.value, name.offset)

\* The yield that began a statement is not a label: it is reduced to an
\* identifier reference and checked by check_identifier_reference.
ReferenceOf(p) ==
    Step(p, CheckIdentifierReference(p.cur.expr[1], p.cur.expr[1].offset))

\* The name `x` of `x :` becomes a label.
LabelOf(p) ==
    Labelled(p, p.cur.expr[1],
             OnLabelIdentifierOn(<<>>, p.labels, p.breaks, p.cur.expr[1],
                                 p.cur.expr[1].offset))

\* break and continue take a label only from the same line.
IsJumpLabelOnAnyLine(tok) == tok.terminal_id = "Name"

\* The token after break or continue is the label of the jump: a name with
\* no line terminator before it.
IsJumpLabel(tok) == tok.terminal_id = "Name" /\ ~tok.is_on_new_line

\* The automaton's transition on one token, by the position in the
\* statement in progress.
Transition(p, tok) ==
    LET t == tok.terminal_id
        nl == tok.is_on_new_line
        expr == p.cur.expr
        last == expr[Len(expr)]
        prefixed == Len(expr) > 0 /\ last.terminal_id = "Incr"
    IN  CASE p.mode = "Start" -> StartOf(p, tok)
          [] p.mode = "AfterFunctionHead" ->
                 IF t = "OpenBrace" THEN Open(p, "FunctionBody", "", p.cur.offset)
                 ELSE Rejected(p)
          [] p.mode = "AfterYield" ->
                 IF t = "Colon" THEN LabelOf(p) ELSE ReferenceOf(p)
          [] p.mode = "NeedOperand" ->
                 CASE t = "Name" -> Shift(p, tok, "AfterOperand")
                   [] t = "Yield" -> Step(p, CheckIdentifierReference(tok, tok.offset))
                   [] t = "Num" ->
                          IF prefixed THEN Step(p, Error("InvalidAssignmentTarget"))
                          ELSE Shift(p, tok, "AfterOperand")
                   [] t \in {"Incr", "Plus"} ->
                          IF prefixed THEN Step(p, Error("InvalidAssignmentTarget"))
                          ELSE Shift(p, tok, "NeedOperand")
                   [] OTHER -> Rejected(p)
          [] p.mode = "AfterThrow" ->
                 IF nl THEN Rejected(p)
                 ELSE CASE t \in {"Num", "Name"} -> Shift(p, tok, "AfterOperand")
                        [] t = "Yield" ->
                               Step(p, CheckIdentifierReference(tok, tok.offset))
                        [] t \in {"Incr", "Plus"} -> Shift(p, tok, "NeedOperand")
                        [] OTHER -> Rejected(p)
          [] p.mode = "AfterReturn" ->
                 CASE t = "Semi" -> Complete(p)
                   [] t \in {"Num", "Name"} /\ ~nl -> Shift(p, tok, "AfterOperand")
                   [] t = "Yield" /\ ~nl ->
                          Step(p, CheckIdentifierReference(tok, tok.offset))
                   [] t \in {"Incr", "Plus"} /\ ~nl -> Shift(p, tok, "NeedOperand")
                   [] OTHER -> Elide(p, tok)
          [] p.mode = "AfterJump" ->
                 CASE t = "Semi" -> Complete(p)
                   [] IsJumpLabel(tok) ->
                          Step([p EXCEPT !.cur.label = tok.value,
                                         !.mode = "AfterJumpLabel"], Ok)
                   [] OTHER -> Elide(p, tok)
          [] p.mode = "AfterJumpLabel" ->
                 IF t = "Semi" THEN Complete(p) ELSE Elide(p, tok)
          [] p.mode = "AfterOperand" ->
                 CASE t = "Plus" -> Shift(p, tok, "NeedOperand")
                   [] t = "Incr" /\ ~nl ->
                          IF last.terminal_id = "Num"
                             \/ (Len(expr) > 1 /\ expr[Len(expr) - 1].terminal_id = "Incr")
                          THEN Step(p, Error("InvalidAssignmentTarget"))
                          ELSE Shift(p, tok, "AfterPostfix")
                   [] t = "Colon" ->
                          IF p.cur.t = "ExpressionStatement" /\ Len(expr) = 1
                             /\ last.terminal_id = "Name"
                          THEN LabelOf(p)
                          ELSE Rejected(p)
                   [] t = "Semi" -> Complete(p)
                   [] OTHER -> Elide(p, tok)
          [] p.mode = "AfterPostfix" ->
                 CASE t = "Plus" -> Shift(p, tok, "NeedOperand")
                   [] t = "Semi" -> Complete(p)
                   [] OTHER -> Elide(p, tok)

\* The token is recorded with the step r the automaton made on it; the
\* first error ends the parse.
Written(p, tok, r) ==
    IF IsErr(r.res)
    THEN Step([p EXCEPT !.written = Append(@, tok), !.error = r.res], r.res)
    ELSE Step([r.parser EXCEPT !.written = Append(@, tok)], Ok)

\* Parser::write_token
WriteTokenOf(p, tok) == Written(p, tok, Transition(p, tok))

\* An accepting configuration without terminator insertion at the end of
\* input: no statement is in progress.
AcceptsEndOfStatementsOnly(p) == p.mode = "Start" /\ Len(p.frames) = 1

\* The stack is an accepting configuration: no statement is in progress, or
\* the one in progress may end here, and no block, function body, label or
\* loop head is left open once it has ended.
AcceptsEnd(p) ==
    \/ p.mode = "Start" /\ Len(p.frames) = 1
    \/ /\ p.mode \in {"AfterOperand", "AfterPostfix", "AfterJump", "AfterJumpLabel",
                      "AfterYield"}
       /\ \A i \in 2..Len(p.frames) : p.frames[i].kind \in {"Label", "While"}

\* can_close by closing the automaton itself where it accepts.
CanCloseByClosing(p) ==
    IF AcceptsEnd(p) /\ p.mode # "Start"
    THEN Step(Complete(p).parser, OkBool(TRUE))
    ELSE Step(p, OkBool(AcceptsEnd(p)))

\* Parser::can_close: a speculative check of the stack, nothing is reduced.
CanCloseOf(p) == Step(p, OkBool(AcceptsEnd(p)))

\* The script is reduced after the step c that finished its last statement,
\* and checked by check_script_bindings, which for a script without bindings
\* pops the labels and examines the sites.
Closed(p, c) ==
    IF IsErr(c.res) THEN Step([p EXCEPT !.error = c.res], c.res)
    ELSE Step([c.parser EXCEPT
                  !.labels = PopLabelsFrom(@, 1),
                  !.error = CheckUnhandledBreakOrContinue(c.parser.breaks, 0)],
              CheckUnhandledBreakOrContinue(c.parser.breaks, 0))

\* Parser::close: end of input. The terminator of a statement in progress is
\* inserted.
CloseOf(p) ==
    IF ~AcceptsEnd(p) THEN Closed(p, Step(p, Error("UnexpectedEnd")))
    ELSE IF p.mode = "Start" THEN Closed(p, Step(p, Ok))
    ELSE IF p.mode = "AfterYield" THEN Closed(p, ReferenceOf(p))
    ELSE Closed(p, Complete(p))

\* The syntax tree of a closed parser: the statements of the script.
ScriptOf(p) == p.frames[1].items

\* is_partial_script: the tokens of the input are written to a new parser,
\* the first error is returned, and an input without error is partial when
\* the parser cannot close. p is the parser after the tokens.
IsPartialScript(p) ==
    IF IsErr(p.error) THEN p.error
    ELSE OkBool(CanCloseOf(p).res # OkBool(TRUE))

\* parse_script: the tokens of the input are written to a new parser, which
\* is closed. p is the parser after the tokens.
ParseScriptOf(p) ==
    IF IsErr(p.error) THEN Step(p, p.error) ELSE CloseOf(p)

\* The characters of the source texts; a text (String, &str) is a sequence
\* of characters.
Letters == {"a", "d", "e", "i", "l", "s", "y"}

Digits == {"2"}

\* The run of identifier characters from i ends before this index.
RECURSIVE WordEnd(_, _)
WordEnd(text, i) ==
    IF i <= Len(text) /\ text[i] \in Letters \cup Digits
    THEN WordEnd(text, i + 1)
    ELSE i

\* The run of digits from i ends before this index.
RECURSIVE DigitsEnd(_, _)
DigitsEnd(text, i) ==
    IF i <= Len(text) /\ text[i] \in Digits THEN DigitsEnd(text, i + 1) ELSE i

\* The characters from i to before j as the value of a token.
RECURSIVE TextOf(_, _, _)
TextOf(text, i, j) == IF i >= j THEN "" ELSE text[i] \o TextOf(text, i + 1, j)

\* The terminal of an identifier name: a keyword or a name.
WordTerminal(word) == IF word = "yield" THEN "Yield" ELSE "Name"

\* The terminal of a one-character punctuator.
PunctuatorTerminal(c) ==
    CASE c = ";" -> "Semi" [] c = ":" -> "Colon" [] c = "{" -> "OpenBrace"
      [] c = "}" -> "CloseBrace" [] c = "+" -> "Plus"

\* Lexer::next, repeated to the end of the text: white space is skipped, a
\* line terminator marks the next token as on a new line, the longest
\* identifier name, number or punctuator is taken, and a token's offset is
\* the offset of its first character in the text, from 0.
RECURSIVE LexFrom(_, _, _, _)
LexFrom(text, i, nl, toks) ==
    IF i > Len(text) THEN toks
    ELSE LET c == text[i]
         IN  CASE c = " " -> LexFrom(text, i + 1, nl, toks)
               [] c = "\n" -> LexFrom(text, i + 1, TRUE, toks)
               [] c \in Letters ->
                      LexFrom(text, WordEnd(text, i), FALSE,
                              Append(toks,
                                     SourceToken(
                                         WordTerminal(TextOf(text, i, WordEnd(text, i))),
                                         TextOf(text, i, WordEnd(text, i)), nl, i - 1)))
               [] c \in Digits ->
                      LexFrom(text, DigitsEnd(text, i), FALSE,
                              Append(toks,
                                     SourceToken("Num", TextOf(text, i, DigitsEnd(text, i)),
                                                 nl, i - 1)))
               [] c = "+" /\ i < Len(text) /\ text[i + 1] = "+" ->
                      LexFrom(text, i + 2, FALSE,
                              Append(toks, SourceToken("Incr", "", nl, i - 1)))
               [] OTHER ->
                      LexFrom(text, i + 1, FALSE,
                              Append(toks, SourceToken(PunctuatorTerminal(c), "", nl,
                                                       i - 1)))

Lex(text) == LexFrom(text, 1, FALSE, <<>>)

\* The tokens from the i-th on are written to the parser, up to the first
\* error.
RECURSIVE WriteTokens(_, _, _)
WriteTokens(p, toks, i) ==
    IF i > Len(toks) \/ IsErr(p.error) THEN p
    ELSE WriteTokens(WriteTokenOf(p, toks[i]).parser, toks, i + 1)

\* parse_script(allocator, source, options) on a text.
ParseScriptText(text) == ParseScriptOf(WriteTokens(ParserNew, Lex(text), 1))

\* chunks_to_string that puts a space between the chunks.
RECURSIVE ChunksSpaced(_, _, _)
ChunksSpaced(code, i, buf) ==
    IF i > Len(code) THEN buf
    ELSE ChunksSpaced(code, i + 1,
                      IF i = 1 THEN code[i] ELSE buf \o <<" ">> \o code[i])

\* The loop of chunks_to_string: buf.push_str(chunk) for the chunks from the
\* i-th on.
RECURSIVE ChunksFrom(_, _, _)
ChunksFrom(code, i, buf) ==
    IF i > Len(code) THEN buf ELSE ChunksFrom(code, i + 1, buf \o code[i])

\* chunks_to_string: all the chunks glued together.
ChunksToString(code) == ChunksFrom(code, 1, <<>>)

\* try_parse
TryParseOf(code) == ParseScriptText(ChunksToString(code))

\* InputValidator::validate with every outcome but Ok(false) reported as
\* incomplete.
ValidateErrorsIncomplete(partial) ==
    IF partial = OkBool(FALSE) THEN "Valid" ELSE "Incomplete"

\* InputValidator::validate, on what is_partial_script returned:
\* ValidationResult::Incomplete or ValidationResult::Valid(None).
ValidateOf(partial) ==
    IF partial = OkBool(TRUE) THEN "Incomplete" ELSE "Valid"

NoCall == [op |-> "none", name |-> "", kind |-> "", offset |-> 0,
           is_simple |-> TRUE, start |-> 0, end |-> 0, src |-> <<>>]

\* EarlyErrorBuilder::new: an empty store, no rule context.
Init ==
    /\ ctx = NoContext
    /\ prev = NoContext
    /\ bindings = <<>>
    /\ pbind = <<>>
    /\ labels = <<>>
    /\ plabels = <<>>
    /\ breaks = <<>>
    /\ pbreaks = <<>>
    /\ call = NoCall
    /\ res = Ok
    /\ noff = 1
    /\ parser = ParserNew

\* A rule context is constructed at scope entry.
New ==
    /\ call.op = "none"
    /\ ctx' \in {BlockNew, CaseBlockNew, LexicalForHeadNew, ScriptNew, ModuleNew,
                 CatchParameterNewWithBindingIdentifier,
                 CatchParameterNewWithBindingPattern,
                 FormalParametersNewSimple, FormalParametersNewNonSimple,
                 UniqueFormalParametersNew}
    /\ prev' = ctx
    /\ call' = [NoCall EXCEPT !.op = "new"]
    /\ res' = Ok
    /\ UNCHANGED <<bindings, pbind, labels, plabels, breaks, pbreaks, noff, parser>>

\* The body context of a construct takes over the context of its head.
NewBody ==
    /\ ctx.type \in {"LexicalForHead", "CatchParameter", "FormalParameters",
                     "UniqueFormalParameters"}
    /\ ctx' = CASE ctx.type = "LexicalForHead" -> LexicalForBodyNew(ctx)
                [] ctx.type = "CatchParameter" -> CatchBlockNew(ctx)
                [] ctx.type = "FormalParameters" -> FunctionBodyNew(ctx)
                [] ctx.type = "UniqueFormalParameters" -> UniqueFunctionBodyNew(ctx)
    /\ prev' = ctx
    /\ call' = [NoCall EXCEPT !.op = "new_body"]
    /\ res' = Ok
    /\ UNCHANGED <<bindings, pbind, labels, plabels, breaks, pbreaks, noff, parser>>

DeclareLex ==
    /\ ctx.type \in LexicalTypes
    /\ noff <= MaxCalls
    /\ \E name \in Names, kind \in DeclarationKinds :
         /\ IsSupportedLexical(ctx.type, kind)
         /\ LET r == DeclareLexOf(ctx, name, kind, noff)
            IN  /\ ctx' = r.ctx
                /\ res' = r.res
                /\ call' = [NoCall EXCEPT !.op = "declare_lex", !.name = name,
                                          !.kind = kind, !.offset = noff]
    /\ prev' = ctx
    /\ noff' = noff + 1
    /\ UNCHANGED <<bindings, pbind, labels, plabels, breaks, pbreaks, parser>>

DeclareVar ==
    /\ ctx.type \in VarTypes
    /\ noff <= MaxCalls
    /\ \E name \in Names, kind \in DeclarationKinds :
         /\ IsSupportedVar(ctx.type, kind)
         /\ LET r == DeclareVarOf(ctx, name, kind, noff)
            IN  /\ ctx' = r.ctx
                /\ res' = r.res
                /\ call' = [NoCall EXCEPT !.op = "declare_var", !.name = name,
                                          !.kind = kind, !.offset = noff]
    /\ prev' = ctx
    /\ noff' = noff + 1
    /\ UNCHANGED <<bindings, pbind, labels, plabels, breaks, pbreaks, parser>>

Declare ==
    /\ ctx.type \in ParameterTypes
    /\ noff <= MaxCalls
    /\ \E name \in Names :
         LET r == DeclareOf(ctx, name, noff)
         IN  /\ ctx' = r.ctx
             /\ res' = r.res
             /\ call' = [NoCall EXCEPT !.op = "declare", !.name = name,
                                       !.offset = noff]
    /\ prev' = ctx
    /\ noff' = noff + 1
    /\ UNCHANGED <<bindings, pbind, labels, plabels, breaks, pbreaks, parser>>

\* A module context is built.
NewModule ==
    /\ call.op = "none"
    /\ ctx' = ModuleNew
    /\ prev' = ctx
    /\ call' = [NoCall EXCEPT !.op = "new"]
    /\ res' = Ok
    /\ UNCHANGED <<bindings, pbind, labels, plabels, breaks, pbreaks, noff, parser>>

AddExportedName ==
    /\ ctx.type = "Module"
    /\ noff <= MaxCalls
    /\ \E name \in Names :
         LET r == ModuleAddExportedName(ctx, name, noff)
         IN  /\ ctx' = r.ctx
             /\ res' = r.res
             /\ call' = [NoCall EXCEPT !.op = "add_exported_name", !.name = name,
                                       !.offset = noff]
    /\ prev' = ctx
    /\ noff' = noff + 1
    /\ UNCHANGED <<bindings, pbind, labels, plabels, breaks, pbreaks, parser>>

AddExportedBinding ==
    /\ ctx.type = "Module"
    /\ noff <= MaxCalls
    /\ \E name \in Names :
         /\ ctx' = ModuleAddExportedBinding(ctx, name, noff)
         /\ call' = [NoCall EXCEPT !.op = "add_exported_binding", !.name = name,
                                   !.offset = noff]
    /\ res' = Ok
    /\ prev' = ctx
    /\ noff' = noff + 1
    /\ UNCHANGED <<bindings, pbind, labels, plabels, breaks, pbreaks, parser>>

CheckExportedName ==
    /\ ctx.type = "Module"
    /\ res' \in ModuleCheckExportedName(ctx)
    /\ call' = [NoCall EXCEPT !.op = "check_exported_name"]
    /\ prev' = ctx
    /\ UNCHANGED <<ctx, bindings, pbind, labels, plabels, breaks, pbreaks, noff,
                   parser>>

\* A run of parse_dir: the summary of the directory, the summary of the
\* subdirectory that is being read, and the single-file statistics that
\* went into each, in the order they were added.
Run(overflow_checks, summary, files, dir, dir_files) ==
    [type |-> "DemoStats", overflow_checks |-> overflow_checks,
     summary |-> summary, files |-> files, dir |-> dir, dir_files |-> dir_files]

\* The statistics parse_file can return for one file.
SingleStats ==
    {DemoStatsNewSingle(size_bytes, success) :
       size_bytes \in 0..U64Max, success \in BOOLEAN}

\* The run goes on: nothing has panicked and there are files left.
RunGoesOn ==
    /\ ctx.type = "DemoStats"
    /\ ~IsErr(res)
    /\ Len(ctx.files) + Len(ctx.dir_files) < MaxFiles

\* The run has made the call `op` and is left as `run`, with the result r.
Ran(op, run, r) ==
    /\ ctx' = run
    /\ prev' = ctx
    /\ call' = [NoCall EXCEPT !.op = op]
    /\ res' = r
    /\ UNCHANGED <<bindings, pbind, labels, plabels, breaks, pbreaks, noff, parser>>

\* parse_dir starts: `let mut summary = DemoStats::new()`, in a build with
\* or without overflow checks.
ParseDir ==
    /\ call.op = "none"
    /\ \E overflow_checks \in BOOLEAN :
         Ran("parse_dir",
             Run(overflow_checks, DemoStatsNew, <<>>, DemoStatsNew, <<>>), Ok)

\* An entry of the directory is a file: summary.add(&parse_file(..)?).
ParseFile ==
    /\ RunGoesOn
    /\ \E stats \in SingleStats :
         LET a == DemoStatsAdd(ctx.summary, stats, ctx.overflow_checks)
         IN  Ran("parse_file",
                 [ctx EXCEPT !.summary = a.stats, !.files = Append(@, stats)],
                 a.res)

\* An entry of the subdirectory is a file: the nested parse_dir adds it to
\* its own summary.
ParseFileOfSubdirectory ==
    /\ RunGoesOn
    /\ \E stats \in SingleStats :
         LET a == DemoStatsAdd(ctx.dir, stats, ctx.overflow_checks)
         IN  Ran("parse_file_of_subdirectory",
                 [ctx EXCEPT !.dir = a.stats, !.dir_files = Append(@, stats)],
                 a.res)

\* The nested parse_dir returns: summary.add(&parse_dir(..)?), and the next
\* subdirectory starts from DemoStats::new().
ParseSubdirectory ==
    /\ ctx.type = "DemoStats"
    /\ ~IsErr(res)
    /\ call.op # "parse_subdirectory"
    /\ LET a == DemoStatsAdd(ctx.summary, ctx.dir, ctx.overflow_checks)
       IN  Ran("parse_subdirectory",
               [ctx EXCEPT !.summary = a.stats, !.files = @ \o ctx.dir_files,
                           !.dir = DemoStatsNew, !.dir_files = <<>>],
               a.res)

\* An entry is neither a file nor a directory: summary.add(&DemoStats::new()).
SkipEntry ==
    /\ ctx.type = "DemoStats"
    /\ ~IsErr(res)
    /\ call.op # "skip_entry"
    /\ LET a == DemoStatsAdd(ctx.summary, DemoStatsNew, ctx.overflow_checks)
       IN  Ran("skip_entry", [ctx EXCEPT !.summary = a.stats], a.res)

\* The checker is driven by the parser: no rule context outlives one of its
\* operations, and the first error ends the parse.
PureOps ==
    {"parse_script", "check_binding_identifier", "check_label_identifier",
     "check_identifier_reference"}

CheckerRuns == ctx.type = "None" /\ call.op \notin PureOps /\ ~IsErr(res)

\* The checker operation `op`, which works on the bindings only, has turned
\* them into o.bindings and returned o.res.
Checked(c, o) ==
    /\ bindings' = o.bindings
    /\ res' = o.res
    /\ call' = c
    /\ pbind' = bindings
    /\ plabels' = labels
    /\ pbreaks' = breaks
    /\ UNCHANGED <<ctx, prev, labels, breaks, parser>>

\* The checker operation `op` has turned the store into st and returned
\* st.res.
CheckedStore(c, st) ==
    /\ bindings' = st.bindings
    /\ labels' = st.labels
    /\ breaks' = st.breaks
    /\ res' = st.res
    /\ call' = c
    /\ pbind' = bindings
    /\ plabels' = labels
    /\ pbreaks' = breaks
    /\ UNCHANGED <<ctx, prev, parser>>

OnBindingIdentifier ==
    /\ CheckerRuns
    /\ noff <= MaxBindings
    /\ \E token \in BindingTokens :
         Checked([NoCall EXCEPT !.op = "on_binding_identifier",
                                !.name = token.value, !.kind = token.terminal_id,
                                !.offset = noff],
                 OnBindingIdentifierOf(bindings, token, noff))
    /\ noff' = noff + 1

\* A declaration is reduced: the bindings it pushed get its kind.
MarkBinding ==
    /\ CheckerRuns
    /\ \E i \in 1..Len(bindings) : bindings[i].kind = "Unknown"
    /\ \E kind \in BindingKinds :
         Checked([NoCall EXCEPT !.op = "mark_binding_kind", !.kind = kind],
                 Out(MarkBindingKind(bindings, kind), Ok))
    /\ UNCHANGED noff

CheckScriptBindings ==
    /\ CheckerRuns
    /\ CheckedStore([NoCall EXCEPT !.op = "check_script_bindings"],
                    CheckScriptBindingsOn(bindings, labels, breaks))
    /\ UNCHANGED noff

CheckModuleBindings ==
    /\ CheckerRuns
    /\ CheckedStore([NoCall EXCEPT !.op = "check_module_bindings"],
                    CheckModuleBindingsOn(bindings, labels, breaks))
    /\ UNCHANGED noff

CheckFunctionBindings ==
    /\ CheckerRuns
    /\ \E is_simple \in BOOLEAN, start \in 1..noff, end \in 1..noff :
         /\ start <= end
         /\ CheckedStore([NoCall EXCEPT !.op = "check_function_bindings",
                                        !.is_simple = is_simple,
                                        !.start = start, !.end = end],
                         CheckFunctionBindingsOn(bindings, labels, breaks,
                                                 is_simple, start, end))
    /\ UNCHANGED noff

CheckUniqueFunctionBindings ==
    /\ CheckerRuns
    /\ \E start \in 1..noff, end \in 1..noff :
         /\ start <= end
         /\ CheckedStore([NoCall EXCEPT !.op = "check_unique_function_bindings",
                                        !.start = start, !.end = end],
                         CheckUniqueFunctionBindingsOn(bindings, labels, breaks,
                                                       start, end))
    /\ UNCHANGED noff

CheckBlockBindings ==
    /\ CheckerRuns
    /\ \E start \in 1..noff :
         Checked([NoCall EXCEPT !.op = "check_block_bindings", !.start = start],
                 CheckBlockBindingsOf(bindings, start))
    /\ UNCHANGED noff

CheckCaseBlockBinding ==
    /\ CheckerRuns
    /\ \E start \in 1..noff :
         CheckedStore([NoCall EXCEPT !.op = "check_case_block_binding",
                                     !.start = start],
                      CheckCaseBlockBindingOn(bindings, labels, breaks, start))
    /\ UNCHANGED noff

CheckCatchBindings ==
    /\ CheckerRuns
    /\ \E is_simple \in BOOLEAN, start \in 1..noff, end \in 1..noff :
         /\ start <= end
         /\ Checked([NoCall EXCEPT !.op = "check_catch_bindings",
                                   !.is_simple = is_simple, !.start = start,
                                   !.end = end],
                    CheckCatchBindingsOf(bindings, is_simple, start, end))
    /\ UNCHANGED noff

CheckCatchNoParamBindings ==
    /\ CheckerRuns
    /\ \E start \in 1..noff :
         Checked([NoCall EXCEPT !.op = "check_catch_no_param_bindings",
                                !.start = start],
                 CheckCatchNoParamBindingsOf(bindings, start))
    /\ UNCHANGED noff

CheckLexicalForBindings ==
    /\ CheckerRuns
    /\ \E start \in 1..noff, end \in 1..noff :
         /\ start <= end
         /\ Checked([NoCall EXCEPT !.op = "check_lexical_for_bindings",
                                   !.start = start, !.end = end],
                    CheckLexicalForBindingsOf(bindings, start, end))
    /\ UNCHANGED noff

\* The label identifier tokens given to on_label_identifier.
LabelTokens ==
    {Token("Name", n) : n \in Names}
    \cup {Token("Yield", "yield"), Token("NameWithEscape", "class")}

\* The labels and sites recorded so far leave room for one more.
StoreHasRoom == noff <= MaxLabels

OnLabelIdentifier ==
    /\ CheckerRuns
    /\ StoreHasRoom
    /\ \E token \in LabelTokens :
         CheckedStore([NoCall EXCEPT !.op = "on_label_identifier",
                                     !.name = token.value,
                                     !.kind = token.terminal_id, !.offset = noff],
                      OnLabelIdentifierOn(bindings, labels, breaks, token, noff))
    /\ noff' = noff + 1

\* A labelled statement is reduced: its label gets the kind of its item.
MarkLabel ==
    /\ CheckerRuns
    /\ \E i \in 1..Len(labels), kind \in LabelKinds \ {"Other"} :
         /\ labels[i].kind = "Other"
         /\ CheckedStore([NoCall EXCEPT !.op = "mark_label_kind_at_offset",
                                        !.kind = kind,
                                        !.offset = labels[i].offset],
                         Store(bindings,
                               MarkLabelKindAtOffset(labels, labels[i].offset, kind),
                               breaks, Ok))
    /\ UNCHANGED noff

\* A break or continue statement is reduced: the site is recorded with the
\* name of its target label, if it has one (the label identifier itself,
\* pushed by on_label_identifier, has been popped again).
OnBreakOrContinue ==
    /\ CheckerRuns
    /\ StoreHasRoom
    /\ \E kind \in BreakOrContinueKinds, label \in Names \cup {""} :
         CheckedStore([NoCall EXCEPT !.op = "push_break_or_continue",
                                     !.name = label, !.kind = kind,
                                     !.offset = noff],
                      Store(bindings, labels,
                            PushBreakOrContinue(
                                breaks, BreakOrContinueInfo(noff, label, kind)),
                            Ok))
    /\ noff' = noff + 1

\* Called after the labelled body has been handled, with the label's name
\* and offset and the offset of its item.
CheckLabelledStatement ==
    /\ CheckerRuns
    /\ \E i \in 1..Len(labels), is_loop \in BOOLEAN :
         \E statement \in (labels[i].offset + 1)..noff :
           CheckedStore([NoCall EXCEPT !.op = "check_labelled_statement",
                                       !.name = labels[i].name,
                                       !.start = labels[i].offset,
                                       !.end = statement],
                        CheckLabelledStatementOn(bindings, labels, breaks,
                                                 labels[i].name, labels[i].offset,
                                                 statement, is_loop))
    /\ UNCHANGED noff

CheckSingleStatement ==
    /\ CheckerRuns
    /\ \E start \in 1..noff :
         CheckedStore([NoCall EXCEPT !.op = "check_single_statement",
                                     !.start = start],
                      CheckSingleStatementOn(bindings, labels, breaks, start))
    /\ UNCHANGED noff

\* One of the identifier checks is applied to a token at an offset.
Identified(op, token, offset, r) ==
    /\ call' = [NoCall EXCEPT !.op = op, !.name = token.value,
                              !.kind = token.terminal_id, !.offset = offset]
    /\ res' = r
    /\ UNCHANGED <<ctx, prev, bindings, pbind, labels, plabels, breaks, pbreaks,
                 noff, parser>>

\* IdentifierEarlyErrorsContext::check_identifier on its own.
ApplyCheckIdentifier ==
    /\ call.op = "none"
    /\ \E token \in IdentifierTokens, offset \in 1..MaxCalls :
         Identified("check_identifier", token, offset,
                    CheckIdentifier(token, offset))

\* IdentifierEarlyErrorsContext::check_binding_identifier on its own.
ApplyCheckBindingIdentifier ==
    /\ call.op = "none"
    /\ \E token \in IdentifierTokens, offset \in 1..MaxCalls :
         Identified("check_binding_identifier", token, offset,
                    CheckBindingIdentifier(token, offset))

\* IdentifierEarlyErrorsContext::check_label_identifier on its own.
ApplyCheckLabelIdentifier ==
    /\ call.op = "none"
    /\ \E token \in IdentifierTokens, offset \in 1..MaxCalls :
         Identified("check_label_identifier", token, offset,
                    CheckLabelIdentifier(token, offset))

\* EarlyErrorChecker::on_identifier_reference
OnIdentifierReference ==
    /\ call.op = "none"
    /\ \E token \in IdentifierTokens, offset \in 1..MaxCalls :
         Identified("check_identifier_reference", token, offset,
                    CheckIdentifierReference(token, offset))

\* A whole script is parsed with a fresh checker.
ParseScript ==
    /\ call.op = "none"
    /\ \E src \in Scripts :
         Checked([NoCall EXCEPT !.op = "parse_script", !.src = src],
                 ParseScriptFrom(<<>>, src, 1))
    /\ UNCHANGED noff

Next ==
    \/ New \/ NewBody \/ DeclareLex \/ DeclareVar \/ Declare
    \/ OnBindingIdentifier \/ MarkBinding
    \/ CheckScriptBindings \/ CheckModuleBindings
    \/ CheckFunctionBindings \/ CheckUniqueFunctionBindings
    \/ CheckBlockBindings \/ CheckCaseBlockBinding
    \/ CheckCatchBindings \/ CheckCatchNoParamBindings
    \/ CheckLexicalForBindings
    \/ ParseScript
    \/ ApplyCheckBindingIdentifier \/ ApplyCheckLabelIdentifier
    \/ OnIdentifierReference \/ ApplyCheckIdentifier

Spec == Init /\ [][Next]_vars

\* The parenthesized head of an arrow function: parsed as parameters, or as
\* an expression of up to max nodes to refine.
Covered(max) ==
    {Leaf("Parameters")}
    \cup {Node("Expression", <<l>>, <<>>) : l \in ListsUpTo(max)}

\* The operands of ++, -- and compound assignment, by variant.
Operands ==
    {Leaf(t) : t \in {"IdentifierExpression", "StaticMemberExpression",
                      "ComputedMemberExpression", "CallExpression",
                      "UnaryExpression", "BinaryExpression", "LiteralExpression",
                      "ArrayExpression", "ObjectExpression",
                      "AssignmentExpression"}}

\* A refinement `op` of the AST `src` has returned r; the store is not used.
Refined(op, src, r) ==
    /\ call' = [NoCall EXCEPT !.op = op, !.src = src]
    /\ res' = r
    /\ UNCHANGED <<ctx, prev, bindings, pbind, labels, plabels, breaks, pbreaks,
                   noff, parser>>

UncoverArrowParameters ==
    /\ call.op = "none"
    /\ \E covered \in Covered(MaxNodes) :
         Refined("uncover_arrow_parameters", covered,
                 UncoverArrowParametersOf(covered))

\* EarlyErrorBuilder::assignment_target_to_binding on its own: the target of
\* an assignment expression of up to MaxNodes nodes.
ApplyAssignmentTargetToBinding ==
    /\ call.op = "none"
    /\ \E target \in TargetsUpTo(MaxNodes - 1) :
         Refined("assignment_target_to_binding", target,
                 AssignmentTargetToBinding(target))

\* EarlyErrorBuilder::post_increment_expr
PostIncrementExpr ==
    /\ call.op = "none"
    /\ \E operand \in Operands :
         Refined("post_increment_expr", operand, ExpressionToSimpleAssignmentTarget2(operand))

\* EarlyErrorBuilder::post_decrement_expr
PostDecrementExpr ==
    /\ call.op = "none"
    /\ \E operand \in Operands :
         Refined("post_decrement_expr", operand, ExpressionToSimpleAssignmentTarget2(operand))

\* EarlyErrorBuilder::pre_increment_expr
PreIncrementExpr ==
    /\ call.op = "none"
    /\ \E operand \in Operands :
         Refined("pre_increment_expr", operand, ExpressionToSimpleAssignmentTarget2(operand))

\* EarlyErrorBuilder::pre_decrement_expr
PreDecrementExpr ==
    /\ call.op = "none"
    /\ \E operand \in Operands :
         Refined("pre_decrement_expr", operand, ExpressionToSimpleAssignmentTarget2(operand))

\* EarlyErrorBuilder::compound_assignment_expr
CompoundAssignmentExpr ==
    /\ call.op = "none"
    /\ \E operand \in Operands :
         Refined("compound_assignment_expr", operand, ExpressionToSimpleAssignmentTarget2(operand))

\* The refinements of already-parsed expressions, each applied to a fresh AST.
RefineNext ==
    \/ UncoverArrowParameters \/ ApplyAssignmentTargetToBinding
    \/ PostIncrementExpr \/ PostDecrementExpr
    \/ PreIncrementExpr \/ PreDecrementExpr
    \/ CompoundAssignmentExpr

RefineSpec == Init /\ [][RefineNext]_vars

\* The checker as driven by a parse of labelled statements, breaks and
\* continues, and the functions, switches and scripts that contain them.
LabelNext ==
    \/ OnLabelIdentifier \/ MarkLabel \/ OnBreakOrContinue
    \/ CheckLabelledStatement \/ CheckSingleStatement
    \/ CheckScriptBindings \/ CheckModuleBindings
    \/ CheckFunctionBindings \/ CheckUniqueFunctionBindings
    \/ CheckCaseBlockBinding

LabelSpec == Init /\ [][LabelNext]_vars

\* The start offsets of the tokens a caller may hand to the checker.
Offsets == 1..(MaxLabels + 1)

\* EarlyErrorChecker::on_binding_identifier with a token at any offset,
\* whatever the offsets of the tokens before it.
OnBindingIdentifierAt ==
    /\ CheckerRuns
    /\ StoreHasRoom
    /\ \E name \in Names, offset \in Offsets :
         Checked([NoCall EXCEPT !.op = "on_binding_identifier", !.name = name,
                                !.kind = "Name", !.offset = offset],
                 OnBindingIdentifierOf(bindings, Token("Name", name), offset))
    /\ noff' = noff + 1

\* EarlyErrorChecker::on_label_identifier with a token at any offset.
OnLabelIdentifierAt ==
    /\ CheckerRuns
    /\ StoreHasRoom
    /\ \E name \in Names, offset \in Offsets :
         CheckedStore([NoCall EXCEPT !.op = "on_label_identifier", !.name = name,
                                     !.kind = "Name", !.offset = offset],
                      OnLabelIdentifierOn(bindings, labels, breaks,
                                          Token("Name", name), offset))
    /\ noff' = noff + 1

\* The checker as notified of binding and label identifiers by a caller that
\* does not keep to increasing offsets.
OffsetNext == OnBindingIdentifierAt \/ OnLabelIdentifierAt

OffsetSpec == Init /\ [][OffsetNext]_vars

\* The tokens a lexer may hand to the automaton at an offset.
ParserTokens(offset) ==
    {SourceToken(t, "", nl, offset) : t \in Terminals \ {"Name", "Yield"},
                                      nl \in BOOLEAN}
    \cup {SourceToken("Name", n, nl, offset) : n \in Names, nl \in BOOLEAN}
    \cup {SourceToken("Yield", "yield", nl, offset) : nl \in BOOLEAN}

\* The statements written whole, each a sequence of sets of terminals:
\* `l: while (true) break m;` and `l: while (true) continue m;`,
\* `function f() { return a; }`, and `2 + 2;`, with the line terminators
\* and the names that ParserTokens gives.
Corpus ==
    {<<{"Name"}, {"Colon"}, {"WhileHead"}, {"Break", "Continue"}, {"Name"}, {"Semi"}>>,
     <<{"FunctionHead"}, {"OpenBrace"}, {"Return"}, {"Name"}, {"Semi"}, {"CloseBrace"}>>,
     <<{"Num"}, {"Plus"}, {"Num"}, {"Semi"}>>}

\* The sources fed to the automaton: every sequence of up to MaxTokens
\* tokens, and the statements of the corpus.
Fed(ts) ==
    \/ Len(ts) <= MaxTokens
    \/ \E source \in Corpus :
         /\ Len(ts) <= Len(source)
         /\ \A i \in 1..Len(ts) : ts[i].terminal_id \in source[i]

\* The automaton takes tokens until its first error or its close.
ParserRuns == parser.error = Ok /\ call.op \notin {"close", "read_print_loop"}

\* The operation c of the automaton has made the step r.
Parsed(c, r) ==
    /\ parser' = r.parser
    /\ res' = r.res
    /\ call' = c
    /\ UNCHANGED <<ctx, prev, bindings, pbind, labels, plabels, breaks, pbreaks>>

WriteToken ==
    /\ ParserRuns
    /\ \E tok \in ParserTokens(noff) :
         /\ Fed(Append(parser.written, tok))
         /\ Parsed([NoCall EXCEPT !.op = "write_token", !.name = tok.value,
                                  !.kind = tok.terminal_id, !.offset = tok.offset],
                   WriteTokenOf(parser, tok))
    /\ noff' = noff + 1

CanClose ==
    /\ ParserRuns
    /\ Parsed([NoCall EXCEPT !.op = "can_close"], CanCloseOf(parser))
    /\ UNCHANGED noff

Close ==
    /\ ParserRuns
    /\ Parsed([NoCall EXCEPT !.op = "close", !.offset = noff], CloseOf(parser))
    /\ UNCHANGED noff

\* The line editor asks the validator about the input typed so far.
Validate ==
    /\ call.op \notin {"close", "read_print_loop"}
    /\ Parsed([NoCall EXCEPT !.op = "validate"],
              Step(parser, [Ok EXCEPT !.msg = ValidateOf(IsPartialScript(parser))]))
    /\ UNCHANGED noff

\* read_print_loop: readline returns the input that the validator reported
\* valid, and parse_script parses it; its error is printed.
ReadPrintLoop ==
    /\ call.op = "validate"
    /\ res.msg = "Valid"
    /\ Parsed([NoCall EXCEPT !.op = "read_print_loop"], ParseScriptOf(parser))
    /\ UNCHANGED noff

ParserNext == WriteToken \/ CanClose \/ Close \/ Validate \/ ReadPrintLoop

ParserSpec == Init /\ [][ParserNext]_vars

\* The characters that the texts split into chunks are written in.
Chars == {"a", "2", "+", ";", " ", "\n"}

\* The texts of up to max characters, and the text `yields;`, whose first
\* five characters are a keyword.
Sources(max) ==
    UNION {[1..n -> Chars] : n \in 0..max}
    \cup {<<"y", "i", "e", "l", "d", "s", ";">>}

\* The i-th smallest element of a set of numbers.
Nth(B, i) == CHOOSE b \in B : Cardinality({x \in B : x <= b}) = i

\* The text cut into consecutive chunks after the characters at the
\* positions cuts.
SplitAt(text, cuts) ==
    LET B == cuts \cup {Len(text)}
    IN  [i \in 1..Cardinality(B) |->
           SubSeq(text, IF i = 1 THEN 1 ELSE Nth(B, i - 1) + 1, Nth(B, i))]

\* The partitions of a text into consecutive chunks; text.split("") also
\* gives an empty chunk at both ends.
Chunkings(text) ==
    {SplitAt(text, cuts) : cuts \in SUBSET (1..(Len(text) - 1))}
    \cup {<<<<>>>> \o SplitAt(text, 1..(Len(text) - 1)) \o <<<<>>>>}

\* A test parses a text given in chunks.
TryParse ==
    /\ call.op = "none"
    /\ \E text \in Sources(MaxChars) :
         \E code \in Chunkings(text) :
           Parsed([NoCall EXCEPT !.op = "try_parse", !.src = code],
                  TryParseOf(code))
    /\ UNCHANGED noff

ChunkSpec == Init /\ [][TryParse]_vars

\* The checker as driven by a parse of declarations, labels, breaks and
\* continues in nested functions and blocks: the notifications come in the
\* order of the source, and a scope is checked where it ends.
ScopeNext ==
    \/ OnBindingIdentifier \/ MarkBinding
    \/ OnLabelIdentifier \/ OnBreakOrContinue
    \/ CheckFunctionBindings \/ CheckUniqueFunctionBindings
    \/ CheckBlockBindings
    \/ CheckScriptBindings \/ CheckModuleBindings

ScopeSpec == Init /\ [][ScopeNext]_vars

\* A module context: its declarations, its exports and the check of the
\* exports.
ModuleNext ==
    \/ NewModule \/ DeclareLex \/ DeclareVar
    \/ AddExportedName \/ AddExportedBinding \/ CheckExportedName

ModuleSpec == Init /\ [][ModuleNext]_vars

\* The driver parses the files of a directory and of its subdirectories.
StatsNext ==
    \/ ParseDir \/ ParseFile \/ ParseFileOfSubdirectory
    \/ ParseSubdirectory \/ SkipEntry

StatsSpec == Init /\ [][StatsNext]_vars

\* ------------------------------------------------------------------- claims

\* The last call was a declare_lex / declare_var / declare on the context.
IsDeclareCall == call.op \in {"declare_lex", "declare_var", "declare"}

\* The last call was a declare_lex of a name the lexical table already held.
RepeatedLex ==
    /\ ctx.type \in {"Block", "CaseBlock"}
    /\ call.op = "declare_lex"
    /\ Has(prev.lex, call.name)

\* Both declarations of a repeated lexical name are function declarations.
BothLexicalFunction ==
    /\ prev.lex[call.name].kind = "LexicalFunction"
    /\ call.kind = "LexicalFunction"

\* C1 as stated: in a Block or CaseBlock context a second
\* declare_lex(N, LexicalFunction, o2) returns Ok.
C1_DuplicateFunctionOk ==
    (RepeatedLex /\ BothLexicalFunction) => res.tag = "Ok"

\* C1 amended: in a Block or CaseBlock context a declare_lex(N,
\* LexicalFunction, o2) after a successful declare_lex(N, LexicalFunction, o1)
\* returns NotImplemented (the strict-mode query fails before the kinds are
\* compared): it is neither accepted nor rejected as a DuplicateBinding, and
\* the tables are left as they were.
C1_DuplicateFunctionNotImplemented ==
    (RepeatedLex /\ BothLexicalFunction) =>
        /\ res = NotImplemented("strict-mode-only early error is not yet supported")
        /\ ctx = prev

C1_Witness ==
    /\ RepeatedLex
    /\ BothLexicalFunction
    /\ ctx.type = "Block"
    /\ prev.lex[call.name].offset < call.offset
    /\ res.tag = "NotImplemented"

\* C2: in a Block or CaseBlock context a second declare_lex of a name already
\* declared lexically returns DuplicateBinding whenever at least one of the
\* two declarations is not a LexicalFunction.
C2_DuplicateLexicalRejected ==
    (RepeatedLex /\ ~BothLexicalFunction) => res.tag = "DuplicateBinding"

\* C3: in a Block or CaseBlock context a declare_var of a lexically declared
\* name and a declare_lex of a var declared name return DuplicateBinding, and
\* no name is a key of both tables.
C3_LexVarDisjoint ==
    ctx.type \in {"Block", "CaseBlock"} =>
        /\ (DOMAIN ctx.lex) \cap (DOMAIN ctx.var) = {}
        /\ (call.op = "declare_var" /\ Has(prev.lex, call.name)) =>
               res.tag = "DuplicateBinding"
        /\ (call.op = "declare_lex" /\ Has(prev.var, call.name)) =>
               res.tag = "DuplicateBinding"

C3_Witness ==
    /\ ctx.type = "CaseBlock"
    /\ call.op = "declare_var"
    /\ Has(prev.lex, call.name)
    /\ DOMAIN ctx.var # {}
    /\ res.tag = "DuplicateBinding"

\* The last checker call was given the offsets (start, end) of a parameter
\* list, catch parameter or for-head: the index of its first binding and of
\* the first binding of the body, in the store before the call.
ParamIndex == FindFirstBinding(pbind, call.start)

BodyIndex == FindFirstBinding(pbind, call.end)

\* Two of the bindings of the parameter list have the same name.
DuplicateParameter ==
    \E i, j \in ParamIndex..(BodyIndex - 1) :
        i < j /\ pbind[i].name = pbind[j].name

\* The store before the call held one binding in the head and one in the
\* body, of the same name.
HeadAndBodySameName ==
    /\ Len(pbind) = BodyIndex
    /\ BodyIndex = ParamIndex + 1
    /\ pbind[ParamIndex].name = pbind[BodyIndex].name

\* The first two bindings of the store before the call are `let`
\* declarations of one name.
TwoLetsSameName ==
    /\ Len(pbind) >= 2
    /\ pbind[1].kind = "Let"
    /\ pbind[2].kind = "Let"
    /\ pbind[1].name = pbind[2].name

\* The script parsed was `let x; let x;`.
ParsedTwoLetsSameName ==
    /\ call.op = "parse_script"
    /\ Len(call.src) = 2
    /\ call.src[1].keyword = "let"
    /\ call.src[2].keyword = "let"
    /\ call.src[1].name = call.src[2].name

C4_WitnessParse ==
    /\ ParsedTwoLetsSameName
    /\ res.tag = "NotImplemented"

\* The last call was a declare of a name the parameter table already held.
RepeatedParameter(type) ==
    /\ ctx.type = type
    /\ call.op = "declare"
    /\ Has(prev.param, call.name)

\* C5: FormalParameters::declare of a repeated name returns DuplicateBinding
\* if and only if the context was created non-simple; a simple parameter list
\* accepts every declare, and check_function_bindings over parameters (a, a)
\* and an empty body fails with DuplicateBinding when the list is non-simple
\* and returns Ok, the function's bindings popped, when it is simple.
C5_FormalParametersDuplicate ==
    /\ RepeatedParameter("FormalParameters") =>
           /\ res.tag = "DuplicateBinding" <=> ~prev.is_simple
           /\ res.tag = "Ok" <=> prev.is_simple
    /\ (ctx.type = "FormalParameters" /\ call.op = "declare" /\ ctx.is_simple) =>
           res = Ok
    /\ (call.op = "check_function_bindings" /\ DuplicateParameter) =>
           /\ ~call.is_simple => res.tag = "DuplicateBinding" /\ bindings = pbind
           /\ (call.is_simple /\ BodyIndex > Len(pbind)) =>
                  res = Ok /\ bindings = SubSeq(pbind, 1, ParamIndex - 1)

C5_Witness ==
    /\ RepeatedParameter("FormalParameters")
    /\ prev.is_simple
    /\ res = Ok
    /\ ctx.param[call.name].offset = call.offset

\* C6: UniqueFormalParameters::declare of a repeated name always returns
\* DuplicateBinding, and check_unique_function_bindings over a parameter
\* list that binds a name twice fails with DuplicateBinding.
C6_UniqueFormalParametersDuplicate ==
    /\ RepeatedParameter("UniqueFormalParameters") =>
           res = DuplicateBinding(call.name, "FormalParameter",
                                  prev.param[call.name].offset,
                                  "FormalParameter", call.offset)
    /\ (call.op = "check_unique_function_bindings" /\ DuplicateParameter) =>
           /\ res.tag = "DuplicateBinding"
           /\ res.kind1 = "FormalParameter"
           /\ res.kind2 = "FormalParameter"
           /\ bindings = pbind

C6_Witness ==
    /\ RepeatedParameter("UniqueFormalParameters")
    /\ res.tag = "DuplicateBinding"
    /\ res.off1 < res.off2

\* The last call was a declare_var, in a catch block, of a name bound by the
\* catch parameter and not declared lexically in the block.
VarOfCatchParameter ==
    /\ ctx.type = "CatchBlock"
    /\ call.op = "declare_var"
    /\ Has(prev.param, call.name)
    /\ ~Has(prev.lex, call.name)

\* C7: in a catch clause, declare_var of a name bound by the catch parameter
\* returns DuplicateBinding when the parameter is a binding pattern and Ok
\* when it is a simple identifier.
C7_CatchVarOfParameter ==
    /\ VarOfCatchParameter =>
           /\ ~prev.is_simple => res.tag = "DuplicateBinding"
           /\ prev.is_simple => res = Ok /\ Has(ctx.var, call.name)
    /\ (call.op = "check_catch_bindings" /\ HeadAndBodySameName
           /\ pbind[BodyIndex].kind = "Var") =>
           IF call.is_simple THEN res = Ok ELSE res.tag = "DuplicateBinding"

C7_Witness ==
    /\ VarOfCatchParameter
    /\ prev.is_simple
    /\ res = Ok

\* C8: in a lexical for-statement, declare_var in the body of a name bound by
\* the head returns DuplicateBinding, the head rejects a second declaration
\* of a name with DuplicateBinding, and a var name the head does not bind is
\* accepted, a repeated one included.
C8_LexicalFor ==
    /\ (ctx.type = "LexicalForBody" /\ call.op = "declare_var") =>
           IF Has(prev.param, call.name)
           THEN res.tag = "DuplicateBinding"
           ELSE res = Ok
    /\ (ctx.type = "LexicalForHead" /\ call.op = "declare_lex") =>
           (res.tag = "DuplicateBinding" <=> Has(prev.param, call.name))
    /\ (call.op = "check_lexical_for_bindings" /\ HeadAndBodySameName
           /\ pbind[ParamIndex].kind \in {"Let", "Const"}
           /\ pbind[BodyIndex].kind = "Var") =>
           res.tag = "DuplicateBinding"
    /\ (call.op = "check_lexical_for_bindings" /\ DuplicateParameter
           /\ \A i \in ParamIndex..(BodyIndex - 1) :
                  pbind[i].kind \in {"Let", "Const"}) =>
           res.tag = "DuplicateBinding"

C8_Witness ==
    /\ ctx.type = "LexicalForBody"
    /\ call.op = "declare_var"
    /\ Has(prev.param, call.name)
    /\ res.tag = "DuplicateBinding"

C8_WitnessRepeatedVar ==
    /\ ctx.type = "LexicalForBody"
    /\ call.op = "declare_var"
    /\ Has(prev.var, call.name)
    /\ res = Ok

\* The entry, in the context before the call, that a DuplicateBinding on
\* `name` can refer to: the name's entry in one of the three tables.
EarlierDeclarations(c, name) ==
    {t[name] : t \in {m \in {c.lex, c.var, c.param} : Has(m, name)}}

\* C9: every DuplicateBinding(name, kind1, off1, kind2, off2) names the kind
\* and offset recorded for the earlier declaration of the name and the kind
\* and offset of the declaration being rejected.
C9_DuplicateBindingNamesBoth ==
    (IsDeclareCall /\ res.tag = "DuplicateBinding") =>
        /\ res.name = call.name
        /\ res.off2 = call.offset
        /\ \E info \in EarlierDeclarations(prev, call.name) :
               /\ res.kind1 = info.kind
               /\ res.off1 = info.offset

\* C10: when a declare_lex, declare_var or declare returns an error the
\* context's tables are as they were before the call.
C10_ErrorLeavesTables ==
    (IsDeclareCall /\ IsErr(res)) => ctx = prev

C10_Witness ==
    /\ IsDeclareCall
    /\ IsErr(res)
    /\ ctx.type = "FunctionBody"
    /\ DOMAIN ctx.var # {}

\* The three identifier checks applied on their own.
IdentifierChecks ==
    {"check_binding_identifier", "check_label_identifier",
     "check_identifier_reference"}

\* The token of the last identifier check.
CallToken == Token(call.kind, call.name)

\* The last call was an identifier check whose verdict depends on strict mode.
StrictDependentCheck ==
    /\ call.op \in IdentifierChecks
    /\ \/ /\ call.op = "check_binding_identifier"
          /\ call.kind \in {"Name", "NameWithEscape"}
          /\ call.name \in {"arguments", "eval"}
       \/ call.kind \in StrictReservedTerminals
       \/ call.kind = "NameWithEscape" /\ call.name \in StrictReservedNames

\* C12: every identifier check whose verdict depends on strict mode
\* ("arguments"/"eval" as a binding identifier; a strict-reserved word, as a
\* keyword terminal or an escaped name, as a binding identifier, a label
\* identifier or an identifier reference) returns NotImplemented, never Ok
\* and never InvalidIdentifier.
C12_StrictDependentNotImplemented ==
    StrictDependentCheck =>
        res = NotImplemented("strict-mode-only early error is not yet supported")

C12_Witness ==
    /\ StrictDependentCheck
    /\ call.op = "check_label_identifier"
    /\ call.kind = "Let"
    /\ res.tag = "NotImplemented"

C12_WitnessArguments ==
    /\ StrictDependentCheck
    /\ call.op = "check_binding_identifier"
    /\ call.name = "arguments"
    /\ res.tag = "NotImplemented"

\* The last call was an identifier check of a `yield` or `await` token.
YieldOrAwaitCheck ==
    /\ call.op \in IdentifierChecks
    /\ IsYieldIdentifier(CallToken) \/ IsAwaitIdentifier(CallToken)

\* C13: check_binding_identifier, check_label_identifier and
\* check_identifier_reference return NotImplemented for every `yield` or
\* `await` token (the terminal, or the escaped name): never Ok, never
\* InvalidIdentifier.
C13_YieldAwaitNotImplemented ==
    YieldOrAwaitCheck =>
        res = IF IsYieldIdentifier(CallToken)
              THEN NotImplemented("[Yield] parameter")
              ELSE NotImplemented("[Await] parameter")

C13_Witness ==
    /\ YieldOrAwaitCheck
    /\ call.op = "check_identifier_reference"
    /\ call.kind = "NameWithEscape"
    /\ call.name = "yield"
    /\ res.tag = "NotImplemented"

\* The operations of the EarlyErrorChecker trait that work on the store.
CheckerOps ==
    {"on_binding_identifier", "on_label_identifier", "check_labelled_statement",
     "check_single_statement", "check_script_bindings", "check_module_bindings",
     "check_function_bindings", "check_unique_function_bindings",
     "check_block_bindings", "check_case_block_binding", "check_catch_bindings",
     "check_catch_no_param_bindings", "check_lexical_for_bindings"}

\* The store is as it was before the last call.
StoreUntouched ==
    /\ bindings = pbind
    /\ labels = plabels
    /\ breaks = pbreaks

\* C11: when an EarlyErrorChecker operation returns an error, the store
\* (bindings, labels, break/continue sites) is exactly as it was before the
\* call: nothing was pushed and nothing was popped.
C11_ErrorLeavesStore ==
    (call.op \in CheckerOps /\ IsErr(res) /\ res.tag # "Panic") => StoreUntouched

\* on_label_identifier has returned an error and the label is in the store.
C11_LabelPushedOnError ==
    /\ call.op = "on_label_identifier"
    /\ IsErr(res)
    /\ Len(labels) = Len(plabels) + 1

\* check_script_bindings has returned an error and the labels are gone.
C11_LabelsPoppedOnError ==
    /\ call.op = "check_script_bindings"
    /\ res.tag = "UnhandledBreakOrContinue"
    /\ plabels # <<>>
    /\ labels = <<>>

\* The statement that starts at the offset is a labelled statement whose
\* labels, from the outermost, are label-wrapping labels up to one whose item
\* is a function declaration.
LabelChainEndsInFunction(ls, offset) ==
    \E i \in 1..Len(ls) :
       /\ ls[i].offset = offset
       /\ \E j \in i..Len(ls) :
            /\ ls[j].kind = "Function"
            /\ \A k \in i..(j - 1) : ls[k].kind = "LabelledLabel"

\* C14: check_single_statement(offset) returns
\* LabelledFunctionDeclInSingleStatement if and only if the statement at the
\* offset is a labelled statement whose chain of labels is zero or more
\* LabelledLabel labels ending in a Function label; otherwise (no label at
\* the offset, or a label of kind Other reached first) it returns Ok. The
\* store is not changed.
C14_LabelledFunctionInSingleStatement ==
    call.op = "check_single_statement" =>
        /\ res = IF LabelChainEndsInFunction(plabels, call.start)
                 THEN Error("LabelledFunctionDeclInSingleStatement")
                 ELSE Ok
        /\ StoreUntouched

C14_Witness ==
    /\ call.op = "check_single_statement"
    /\ Len(labels) = 2
    /\ labels[1].kind = "LabelledLabel"
    /\ labels[2].kind = "Function"
    /\ call.start = labels[1].offset
    /\ res.tag = "LabelledFunctionDeclInSingleStatement"

C14_WitnessOtherFirst ==
    /\ call.op = "check_single_statement"
    /\ Len(labels) = 2
    /\ labels[1].kind = "Other"
    /\ labels[2].kind = "Function"
    /\ call.start = labels[1].offset
    /\ res = Ok

\* The label at index i wraps, through label-wrapping labels only (no other
\* statement in between), a label of the same name.
DirectlyNestedDuplicate(ls, i) ==
    \E j \in (i + 1)..Len(ls) :
       /\ ls[j].name = ls[i].name
       /\ \A k \in i..(j - 1) : ls[k].kind = "LabelledLabel"

\* A label of the name is recorded at or after the offset.
LabelRecordedFrom(ls, name, offset) ==
    \E j \in 1..Len(ls) : ls[j].offset >= offset /\ ls[j].name = name

\* The sites that do not target the name from the offset on.
SitesNotResolved(brs, name, offset) ==
    LET Keep(info) == ~(info.offset >= offset /\ info.label = name)
    IN  SelectSeq(brs, Keep)

\* C15 as stated: check_labelled_statement rejects a duplicate label only
\* when it is nested without an intervening non-label statement.
C15_DuplicateOnlyWhenDirectlyNested ==
    (call.op = "check_labelled_statement" /\ res.tag = "DuplicateLabel") =>
        DirectlyNestedDuplicate(plabels, FindLabelIndexAtOffset(plabels, call.start))

\* C15: check_labelled_statement(name, label_offset, statement_offset)
\* returns the duplicate-label error, leaving the store as it was, exactly
\* when a label of the same name is recorded at or after statement_offset,
\* whatever statements lie in between; otherwise it returns Ok or the
\* continue-to-non-loop error, and on Ok the store has lost exactly the
\* break/continue sites at or after label_offset that target the name.
C15_LabelledStatement ==
    call.op = "check_labelled_statement" =>
        IF LabelRecordedFrom(plabels, call.name, call.end)
        THEN res = Error("DuplicateLabel") /\ StoreUntouched
        ELSE /\ res \in {Ok, Error("LabelledContinueToNonLoop")}
             /\ IsErr(res) => StoreUntouched
             /\ ~IsErr(res) =>
                   /\ bindings = pbind
                   /\ labels = plabels
                   /\ breaks = SitesNotResolved(pbreaks, call.name, call.start)

C15_Witness ==
    /\ call.op = "check_labelled_statement"
    /\ res.tag = "DuplicateLabel"
    /\ Len(plabels) = 2
    /\ plabels[1].kind = "Other"
    /\ call.start = plabels[1].offset

C15_WitnessResolved ==
    /\ call.op = "check_labelled_statement"
    /\ res = Ok
    /\ Len(pbreaks) = 1
    /\ breaks = <<>>

C15_WitnessLeftInPlace ==
    /\ call.op = "check_labelled_statement"
    /\ res = Ok
    /\ Len(pbreaks) = 1
    /\ pbreaks[1].label # ""
    /\ breaks = pbreaks

\* The handlers of ++, -- and compound assignment.
SimpleTargetOps ==
    {"post_increment_expr", "post_decrement_expr", "pre_increment_expr",
     "pre_decrement_expr", "compound_assignment_expr"}

\* C20: the operand of ++/-- (prefix or postfix) and the left-hand side of a
\* compound assignment are accepted exactly when they are an identifier, a
\* static member or a computed member expression; a call expression gives
\* NotImplemented and every other expression gives InvalidAssignmentTarget.
C20_SimpleAssignmentTarget ==
    call.op \in SimpleTargetOps =>
        CASE call.src.t \in {"IdentifierExpression", "StaticMemberExpression",
                             "ComputedMemberExpression"} -> res = Ok
          [] call.src.t = "CallExpression" -> res.tag = "NotImplemented"
          [] OTHER -> res = Error("InvalidAssignmentTarget")

\* A compound assignment to a binary expression was rejected.
C20_Witness ==
    /\ call.op = "compound_assignment_expr"
    /\ call.src.t = "BinaryExpression"
    /\ res = Error("InvalidAssignmentTarget")

\* A prefix decrement of a call expression was reported as not implemented.
C20_WitnessCall ==
    /\ call.op = "pre_decrement_expr"
    /\ call.src.t = "CallExpression"
    /\ res.tag = "NotImplemented"

\* A postfix increment of a computed member expression was accepted.
C20_WitnessMember ==
    /\ call.op = "post_increment_expr"
    /\ call.src.t = "ComputedMemberExpression"
    /\ res = Ok

\* The single parameter of the refined arrow head, when the head was parsed
\* as an expression without commas.
OnlyParameter == call.src.kids[1]

\* The last call refined an arrow head of one parameter of variant t.
RefinedParameter(t) ==
    /\ call.op = "uncover_arrow_parameters"
    /\ call.src.t = "Expression"
    /\ OnlyParameter.t = t

\* The properties before the last are shorthand names or `name: identifier`.
PlainProperties(properties) ==
    \A i \in 1..(Len(properties) - 1) :
        \/ properties[i].t = "ShorthandProperty"
        \/ /\ properties[i].t = "DataProperty"
           /\ properties[i].kids[1].t = "IdentifierExpression"

\* The properties of an object assignment target are names or
\* `name: identifier`, with or without a default.
PlainTargetProperties(properties) ==
    \A i \in 1..Len(properties) :
        \/ properties[i].t = "AssignmentTargetPropertyIdentifier"
        \/ LET m == properties[i].kids[1]
           IN  \/ m.t = "AssignmentTargetIdentifier"
               \/ /\ m.t = "AssignmentTargetWithDefault"
                  /\ m.kids[1].t = "AssignmentTargetIdentifier"

\* The last call refined an object literal `{..., ...operand}`.
ObjectLiteralWithRest ==
    /\ RefinedParameter("ObjectExpression")
    /\ Len(OnlyParameter.kids) > 0
    /\ OnlyParameter.kids[Len(OnlyParameter.kids)].t = "SpreadProperty"

\* The object assignment target the last call refined, if it has a rest:
\* passed to assignment_target_to_binding, or the left-hand side of the `=`
\* that is the only parameter of an arrow head.
ObjectTargetsWithRest ==
    LET T == IF call.op = "assignment_target_to_binding" THEN {call.src}
             ELSE IF RefinedParameter("AssignmentExpression")
             THEN {OnlyParameter.kids[1]}
             ELSE {}
    IN  {t \in T : t.t = "ObjectAssignmentTarget" /\ t.rest # <<>>}

\* C19: the rest of an object pattern must be a plain identifier, on both
\* refinement paths: the operand of the final spread property of an object
\* literal, and the rest of an object assignment target, give Ok when they are
\* an identifier and ObjectBindingPatternWithInvalidRest when they are not
\* (the properties before the rest being plain names); whatever the properties
\* before it, a rest that is not an identifier is never accepted.
C19_ObjectRestIsIdentifier ==
    /\ ObjectLiteralWithRest =>
         LET operand == OnlyParameter.kids[Len(OnlyParameter.kids)].kids[1]
         IN  /\ operand.t # "IdentifierExpression" => IsErr(res)
             /\ PlainProperties(OnlyParameter.kids) =>
                  res = IF operand.t = "IdentifierExpression" THEN Ok
                        ELSE Error("ObjectBindingPatternWithInvalidRest")
    /\ \A t \in ObjectTargetsWithRest :
         /\ t.rest[1].t # "AssignmentTargetIdentifier" => IsErr(res)
         /\ PlainTargetProperties(t.kids) =>
              res = IF t.rest[1].t = "AssignmentTargetIdentifier" THEN Ok
                    ELSE Error("ObjectBindingPatternWithInvalidRest")

\* `({a, ...[b]}) => {}`: the rest operand of the literal is an array.
C19_Witness ==
    /\ ObjectLiteralWithRest
    /\ Len(OnlyParameter.kids) = 2
    /\ PlainProperties(OnlyParameter.kids)
    /\ OnlyParameter.kids[2].kids[1].t = "ArrayExpression"
    /\ res = Error("ObjectBindingPatternWithInvalidRest")

\* `({...a}) => {}`: the rest operand of the literal is an identifier.
C19_WitnessIdentifier ==
    /\ ObjectLiteralWithRest
    /\ OnlyParameter.kids[Len(OnlyParameter.kids)].kids[1].t = "IdentifierExpression"
    /\ res = Ok

\* `({a, ...b.c} = d) => {}`: the rest of the object target is a member.
C19_WitnessTargetRest ==
    /\ call.op = "uncover_arrow_parameters"
    /\ \E t \in ObjectTargetsWithRest :
         /\ Len(t.kids) = 1
         /\ PlainTargetProperties(t.kids)
         /\ t.rest[1].t = "MemberAssignmentTarget"
    /\ res = Error("ObjectBindingPatternWithInvalidRest")

\* `{a, ...b}`: the rest of an object target passed to
\* assignment_target_to_binding is an identifier.
C19_WitnessTargetRestDirect ==
    /\ call.op = "assignment_target_to_binding"
    /\ \E t \in ObjectTargetsWithRest :
         /\ Len(t.kids) = 1
         /\ PlainTargetProperties(t.kids)
         /\ t.rest[1].t = "AssignmentTargetIdentifier"
    /\ res = Ok

\* `{a, ...[b]}`: the rest of an object target is itself a pattern.
C19_WitnessTargetRestPattern ==
    /\ call.op = "assignment_target_to_binding"
    /\ \E t \in ObjectTargetsWithRest :
         PlainTargetProperties(t.kids) /\ t.rest[1].t = "ArrayAssignmentTarget"
    /\ res = Error("ObjectBindingPatternWithInvalidRest")

\* The nodes of an AST: the node itself and the nodes of its children and of
\* its rest.
RECURSIVE Within(_)
Within(node) ==
    {node}
    \cup UNION {Within(node.kids[i]) : i \in 1..Len(node.kids)}
    \cup UNION {Within(node.rest[i]) : i \in 1..Len(node.rest)}

\* A member-expression target (a.x or a[i]) occurs in the AST.
MemberOccurs(node) ==
    \E n \in Within(node) : n.t = "MemberAssignmentTarget"

\* Some object assignment target in the AST has a rest that is not an
\* identifier.
ObjectRestNotIdentifier(node) ==
    \E n \in Within(node) :
        /\ n.t = "ObjectAssignmentTarget"
        /\ n.rest # <<>>
        /\ n.rest[1].t # "AssignmentTargetIdentifier"

\* C18 as stated: assignment_target_to_binding returns InvalidParameter for
\* every member-expression target wherever it occurs in the target, and Ok
\* only if every leaf target is an identifier.
C18_MemberAlwaysInvalidParameter ==
    call.op = "assignment_target_to_binding" =>
        /\ MemberOccurs(call.src) => res = Error("InvalidParameter")
        /\ res = Ok => ~MemberOccurs(call.src)

\* C18 amended: assignment_target_to_binding never accepts a target in which
\* a member-expression target occurs, and it returns Ok exactly when no member
\* target occurs and every object rest is an identifier. It returns the first
\* error in source order: InvalidParameter for a member target as the target
\* itself, an array element, a property value or an array rest, and
\* ObjectBindingPatternWithInvalidRest for a rest of an object target that is
\* not an identifier, a member target included. So a member target gives
\* InvalidParameter when no object rest of the target is a non-identifier.
C18_MemberTarget ==
    call.op = "assignment_target_to_binding" =>
        /\ res = Ok <=> /\ ~MemberOccurs(call.src)
                        /\ ~ObjectRestNotIdentifier(call.src)
        /\ res \in {Ok, Error("InvalidParameter"),
                    Error("ObjectBindingPatternWithInvalidRest")}
        /\ (MemberOccurs(call.src) /\ ~ObjectRestNotIdentifier(call.src)) =>
              res = Error("InvalidParameter")
        /\ res = Error("InvalidParameter") => MemberOccurs(call.src)
        /\ res = Error("ObjectBindingPatternWithInvalidRest") =>
              ObjectRestNotIdentifier(call.src)

\* `[a, ...b.c]`: a member target as an array rest gives InvalidParameter.
C18_Witness ==
    /\ call.op = "assignment_target_to_binding"
    /\ call.src.t = "ArrayAssignmentTarget"
    /\ Len(call.src.kids) = 1
    /\ call.src.rest # <<>>
    /\ call.src.rest[1].t = "MemberAssignmentTarget"
    /\ res = Error("InvalidParameter")

\* `{a: [b.c]}`: a member target nested in an array in an object.
C18_WitnessNested ==
    /\ call.op = "assignment_target_to_binding"
    /\ call.src.t = "ObjectAssignmentTarget"
    /\ Len(call.src.kids) = 1
    /\ call.src.kids[1].t = "AssignmentTargetPropertyProperty"
    /\ call.src.kids[1].kids[1].t = "ArrayAssignmentTarget"
    /\ MemberOccurs(call.src)
    /\ res = Error("InvalidParameter")

\* `{...a.b}`: a member target as the rest of an object target.
C18_WitnessObjectRest ==
    /\ call.op = "assignment_target_to_binding"
    /\ call.src.t = "ObjectAssignmentTarget"
    /\ call.src.rest # <<>>
    /\ call.src.rest[1].t = "MemberAssignmentTarget"
    /\ res = Error("ObjectBindingPatternWithInvalidRest")

\* `[{...[]}, a.b]`: an invalid object rest comes before a member target.
C18_WitnessEarlierError ==
    /\ call.op = "assignment_target_to_binding"
    /\ call.src.t = "ArrayAssignmentTarget"
    /\ Len(call.src.kids) = 2
    /\ call.src.kids[2].t = "MemberAssignmentTarget"
    /\ res = Error("ObjectBindingPatternWithInvalidRest")

\* The last call refined an object literal whose properties are shorthand
\* names and method definitions only, so that a method is its only fault.
ObjectLiteralOfNamesAndMethods ==
    /\ RefinedParameter("ObjectExpression")
    /\ \A i \in 1..Len(OnlyParameter.kids) :
         OnlyParameter.kids[i].t \in {"ShorthandProperty", "MethodDefinition"}

\* The positions of the method definitions of the refined object literal.
MethodPositions ==
    {i \in 1..Len(OnlyParameter.kids) : OnlyParameter.kids[i].t = "MethodDefinition"}

\* C17: refining an object literal into an object binding pattern returns
\* ObjectPatternWithMethod whenever the literal contains a method definition,
\* in any property position including the last one.
C17_MethodInAnyPosition ==
    (ObjectLiteralOfNamesAndMethods /\ MethodPositions # {}) =>
        res = Error("ObjectPatternWithMethod")

\* What the code does: a method definition is rejected in every position but
\* the last, which split_last() sets aside and only looks at for a spread.
C17_MethodBeforeLast ==
    ObjectLiteralOfNamesAndMethods =>
        res = IF \E i \in MethodPositions : i < Len(OnlyParameter.kids)
              THEN Error("ObjectPatternWithMethod")
              ELSE Ok

\* `({a, m() {}}) => {}` was accepted.
C17_MethodLastAccepted ==
    /\ ObjectLiteralOfNamesAndMethods
    /\ Len(OnlyParameter.kids) = 2
    /\ MethodPositions = {2}
    /\ res = Ok

\* `({m() {}, a}) => {}` was rejected.
C17_MethodFirstRejected ==
    /\ ObjectLiteralOfNamesAndMethods
    /\ Len(OnlyParameter.kids) = 2
    /\ MethodPositions = {1}
    /\ res = Error("ObjectPatternWithMethod")

\* The positions before the last of an array or object literal that hold a
\* spread element or spread property.
NonFinalSpreads(literal) ==
    {i \in 1..(Len(literal.kids) - 1) :
        literal.kids[i].t \in {"SpreadElement", "SpreadProperty"}}

\* Some array or object literal of the AST, at any depth, has a spread that
\* is not its last element.
NonFinalSpreadOccurs(node) ==
    \E n \in Within(node) :
        /\ n.t \in {"ArrayExpression", "ObjectExpression"}
        /\ NonFinalSpreads(n) # {}

\* C16: refining an arrow-parameter expression rejects a spread that is not
\* the last element of its array or object literal, at any nesting depth.
C16_NonFinalRestAtAnyDepth ==
    (call.op = "uncover_arrow_parameters" /\ NonFinalSpreadOccurs(call.src)) =>
        IsErr(res)

\* The elements before position i are identifiers or holes (array literal),
\* or shorthand names (object literal).
PlainBefore(literal, i) ==
    \A j \in 1..(i - 1) :
        literal.kids[j].t \in {"IdentifierExpression", "Elision", "ShorthandProperty"}

\* What the code does for the literal that is itself the parameter: the first
\* non-final spread gives ArrayPatternWithNonFinalRest in an array literal
\* and ObjectPatternWithNonFinalRest in an object literal, and a final spread
\* of an identifier after plain elements is accepted.
C16_NonFinalRestOfParameter ==
    (RefinedParameter("ArrayExpression") \/ RefinedParameter("ObjectExpression")) =>
        LET n == Len(OnlyParameter.kids)
        IN  /\ \A i \in NonFinalSpreads(OnlyParameter) :
                 PlainBefore(OnlyParameter, i) =>
                    res = IF OnlyParameter.t = "ArrayExpression"
                          THEN Error("ArrayPatternWithNonFinalRest")
                          ELSE Error("ObjectPatternWithNonFinalRest")
            /\ ( /\ n > 0
                 /\ PlainBefore(OnlyParameter, n)
                 /\ OnlyParameter.kids[n].t \in {"SpreadElement", "SpreadProperty"}
                 /\ OnlyParameter.kids[n].kids[1].t = "IdentifierExpression" )
               => res = Ok

\* `([[...a, b]]) => {}` was accepted: the inner array is the last element of
\* the outer one.
C16_NestedNonFinalRestAccepted ==
    /\ RefinedParameter("ArrayExpression")
    /\ Len(OnlyParameter.kids) = 1
    /\ OnlyParameter.kids[1].t = "ArrayExpression"
    /\ NonFinalSpreads(OnlyParameter.kids[1]) # {}
    /\ res = Ok

\* `([...a, b]) => {}` was rejected.
C16_NonFinalRestRejected ==
    /\ RefinedParameter("ArrayExpression")
    /\ NonFinalSpreads(OnlyParameter) = {1}
    /\ res = Error("ArrayPatternWithNonFinalRest")

\* The check_* operations that declare the stored bindings into rule
\* contexts.
CheckBindingsOps ==
    {"check_script_bindings", "check_module_bindings", "check_function_bindings",
     "check_unique_function_bindings", "check_block_bindings",
     "check_case_block_binding", "check_catch_bindings",
     "check_catch_no_param_bindings", "check_lexical_for_bindings"}

\* Every binding the last call found in the store had been given its kind.
AllBindingsMarked == \A i \in 1..Len(pbind) : pbind[i].kind \in BindingKinds

\* The defensive assertion of a rule context has fired.
UnsupportedKindAsserted ==
    /\ res.tag = "Panic"
    /\ res.msg \in {"assertion failed: Self::is_supported_var(kind)",
                    "assertion failed: Self::is_supported_lexical(kind)"}

\* C26: for every check_* operation and every stored binding kind, the
\* DeclarationKind passed to declare_lex / declare_var is one the rule context
\* supports, so the defensive assertion never fires.
C26_OnlySupportedKindsDeclared ==
    (call.op \in CheckBindingsOps /\ AllBindingsMarked) => ~UnsupportedKindAsserted

\* What the code does: the assertion fires in check_module_bindings only, and
\* there exactly when a function comes before any error among the bindings.
C26_OnlyModuleAsserts ==
    (call.op \in CheckBindingsOps /\ AllBindingsMarked /\ UnsupportedKindAsserted)
        => /\ call.op = "check_module_bindings"
           /\ \E i \in 1..Len(pbind) : pbind[i].kind \in {"Function", "AsyncOrGenerator"}

\* check_module_bindings on a module that declares one function.
C26_ModuleFunctionAsserts ==
    /\ call.op = "check_module_bindings"
    /\ Len(pbind) = 1
    /\ pbind[1].kind = "Function"
    /\ UnsupportedKindAsserted

\* check_script_bindings on a script that declares one function.
C26_ScriptFunctionDeclared ==
    /\ call.op = "check_script_bindings"
    /\ Len(pbind) = 1
    /\ pbind[1].kind = "Function"
    /\ res = Ok

\* The entries of a sequence of the store are in strictly increasing offset
\* order.
InOffsetOrder(entries) ==
    \A i \in 1..(Len(entries) - 1) : entries[i].offset < entries[i + 1].offset

\* C27: in every reachable state of the store the recorded bindings are in
\* strictly increasing source-offset order, and so are the recorded labels; an
\* out-of-order push is caught by the assertion rather than stored.
C27_StoreInOffsetOrder == InOffsetOrder(bindings) /\ InOffsetOrder(labels)

\* What the code does for bindings: they stay in strictly increasing order,
\* and a binding identifier at or before the last binding is caught by the
\* assertion and not stored.
C27_BindingsInOffsetOrder ==
    /\ InOffsetOrder(bindings)
    /\ ( /\ call.op = "on_binding_identifier"
         /\ pbind # <<>>
         /\ pbind[Len(pbind)].offset >= call.offset )
       => (res.tag = "Panic" /\ bindings = pbind)

\* What the code does for labels: the assertion compares the label's offset
\* with the last binding, and the label is appended whenever it passes.
C27_LabelComparedWithLastBinding ==
    call.op = "on_label_identifier" =>
        IF pbind # <<>> /\ pbind[Len(pbind)].offset >= call.offset
        THEN res.tag = "Panic" /\ labels = plabels
        ELSE labels = Append(plabels, LabelInfo(call.name, call.offset, "Other"))

\* A label identifier at an offset before the last label was stored.
C27_LabelStoredOutOfOrder ==
    /\ call.op = "on_label_identifier"
    /\ res = Ok
    /\ Len(labels) = 2
    /\ labels[2].offset < labels[1].offset

\* A binding identifier at an offset before the last binding was caught.
C27_BindingCaughtOutOfOrder ==
    /\ call.op = "on_binding_identifier"
    /\ Len(pbind) = 1
    /\ call.offset < pbind[1].offset
    /\ res.tag = "Panic"

\* The last call was a declare_lex, in a Script or Module context, of a name
\* the lexical table already held.
RepeatedLexInScriptOrModule ==
    /\ ctx.type \in {"Script", "Module"}
    /\ call.op = "declare_lex"
    /\ Has(prev.lex, call.name)

\* The kind a Block context has for a declaration: a function declaration of
\* a module's top level is a block-level function in a block.
BlockKind(kind) == IF kind = "BodyLevelFunction" THEN "LexicalFunction" ELSE kind

\* The Block context that holds the declarations of a Script or Module
\* context.
AsBlock(c) ==
    [BlockNew EXCEPT
       !.lex = [n \in DOMAIN c.lex |->
                  DeclarationInfo(BlockKind(c.lex[n].kind), c.lex[n].offset)],
       !.var = c.var]

\* Both declarations of the repeated name have a kind a Block context takes.
ComparableWithBlock ==
    /\ BlockIsSupportedLexical(BlockKind(prev.lex[call.name].kind))
    /\ BlockIsSupportedLexical(BlockKind(call.kind))

\* The result of the same declaration in the Block context with the same
\* declarations.
BlockVerdict ==
    BlockDeclareLex(AsBlock(prev), call.name, BlockKind(call.kind), call.offset).res

\* Both declarations of the repeated name are function declarations.
BothFunctions ==
    /\ BlockKind(prev.lex[call.name].kind) = "LexicalFunction"
    /\ BlockKind(call.kind) = "LexicalFunction"

C28_WitnessScript ==
    /\ RepeatedLexInScriptOrModule
    /\ ctx.type = "Script"
    /\ prev.lex[call.name].kind = "Let"
    /\ call.kind = "Let"
    /\ res.tag = "DuplicateBinding"

\* The index of the first binding the last check_* operation declared.
FirstDeclared ==
    IF call.op \in {"check_script_bindings", "check_module_bindings"} THEN 1
    ELSE FindFirstBinding(pbind, call.start)

\* The check_* operations that declare parameters (or a for-head) into one
\* context and the body into a second one made from it.
TwoContextOps ==
    {"check_function_bindings", "check_unique_function_bindings",
     "check_catch_bindings", "check_lexical_for_bindings"}

\* The index of the first binding the last check_* operation declared into
\* its body context.
FirstOfBody ==
    IF call.op \in TwoContextOps THEN FindFirstBinding(pbind, call.end)
    ELSE FirstDeclared

\* The context the last check_* operation made first.
FirstContext ==
    CASE call.op = "check_script_bindings" -> ScriptNew
      [] call.op = "check_module_bindings" -> ModuleNew
      [] call.op = "check_function_bindings" ->
             IF call.is_simple THEN FormalParametersNewSimple
             ELSE FormalParametersNewNonSimple
      [] call.op = "check_unique_function_bindings" -> UniqueFormalParametersNew
      [] call.op = "check_block_bindings" -> BlockNew
      [] call.op = "check_case_block_binding" -> CaseBlockNew
      [] call.op = "check_catch_bindings" ->
             IF call.is_simple THEN CatchParameterNewWithBindingIdentifier
             ELSE CatchParameterNewWithBindingPattern
      [] call.op = "check_catch_no_param_bindings" ->
             CatchParameterNewWithBindingIdentifier
      [] call.op = "check_lexical_for_bindings" -> LexicalForHeadNew
      [] OTHER -> ScriptNew

\* The body context made from the parameter context.
BodyContext(c) ==
    CASE c.type = "FormalParameters" -> FunctionBodyNew(c)
      [] c.type = "UniqueFormalParameters" -> UniqueFunctionBodyNew(c)
      [] c.type = "CatchParameter" -> CatchBlockNew(c)
      [] c.type = "LexicalForHead" -> LexicalForBodyNew(c)
      [] OTHER -> c

\* The DeclarationKind under which a context of type t is given a stored
\* binding of the kind, "None" where the helper of the context panics.
DeclaredKind(t, kind) ==
    CASE t \in {"Script", "Module", "FunctionBody", "UniqueFunctionBody"} ->
             CASE kind \in {"Function", "AsyncOrGenerator"} -> "BodyLevelFunction"
               [] kind \in {"Var", "Let", "Const", "Class"} -> kind
               [] OTHER -> "None"
      [] t \in {"Block", "CaseBlock", "CatchBlock"} ->
             CASE kind = "Function" -> "LexicalFunction"
               [] kind = "AsyncOrGenerator" -> "LexicalAsyncOrGenerator"
               [] kind \in {"Var", "Let", "Const", "Class"} -> kind
               [] OTHER -> "None"
      [] t = "LexicalForHead" -> IF kind \in {"Let", "Const"} THEN kind ELSE "None"
      [] t = "LexicalForBody" -> IF kind = "Var" THEN kind ELSE "None"
      [] OTHER -> "None"

\* One stored binding declared into a context: a parameter context is given
\* the name, the others the name under its DeclarationKind, as a var or as a
\* lexical declaration.
DeclareOne(c, info) ==
    LET kind == DeclaredKind(c.type, info.kind)
    IN  IF c.type \in ParameterTypes THEN DeclareOf(c, info.name, info.offset)
        ELSE IF kind = "None" THEN Ret(c, Panic("Unexpected binding found"))
        ELSE IF kind \in {"Var", "BodyLevelFunction"}
        THEN DeclareVarOf(c, info.name, kind, info.offset)
        ELSE DeclareLexOf(c, info.name, kind, info.offset)

\* The bindings from FirstDeclared to k declared one by one in store order,
\* the body context being made where the body starts: the context after the
\* k-th binding and the result of declaring it.
RECURSIVE DeclaredOneByOne(_)
DeclaredOneByOne(k) ==
    IF k < FirstDeclared THEN Ret(FirstContext, Ok)
    ELSE LET before == DeclaredOneByOne(k - 1).ctx
         IN  DeclareOne(IF k = FirstOfBody THEN BodyContext(before) ELSE before,
                        pbind[k])

\* The bindings whose declaration fails after every binding before them was
\* declared: the first violation, if there is one.
FirstViolations ==
    {k \in FirstDeclared..Len(pbind) :
        /\ IsErr(DeclaredOneByOne(k).res)
        /\ \A j \in FirstDeclared..(k - 1) : ~IsErr(DeclaredOneByOne(j).res)}

C29_WitnessLaterNotExamined ==
    /\ call.op \in CheckBindingsOps
    /\ \E k \in FirstViolations : k < Len(pbind)

\* A NotImplemented of a rule context comes back as it is.
C29_WitnessNotImplemented ==
    /\ call.op \in CheckBindingsOps
    /\ FirstViolations # {}
    /\ res.tag = "NotImplemented"

BlockLikeOps ==
    {"check_block_bindings", "check_case_block_binding", "check_catch_bindings",
     "check_catch_no_param_bindings", "check_lexical_for_bindings"}

\* The bindings of a store as a set.
Stored(bs) == {bs[i] : i \in 1..Len(bs)}

\* The last call was a check_* operation of a block-like scope that held a
\* binding and succeeded.
BlockLikeScopeClosed ==
    /\ call.op \in BlockLikeOps
    /\ res = Ok
    /\ FirstDeclared <= Len(pbind)

C30_WitnessLexicalRemoved ==
    /\ BlockLikeScopeClosed
    /\ FirstDeclared = 2
    /\ pbind[2].kind \in {"Let", "Const", "Class", "Function"}
    /\ bindings = <<pbind[1]>>

\* A for statement with a lexical head and a var in its body.
C30_WitnessForBody ==
    /\ call.op = "check_lexical_for_bindings"
    /\ res = Ok
    /\ Len(pbind) = 2
    /\ FirstDeclared = 1
    /\ bindings = <<pbind[2]>>

\* The automaton after the tokens ts were written to a new parser one after
\* the other, with no other operation in between.
RECURSIVE Replay(_)
Replay(ts) ==
    IF ts = <<>> THEN ParserNew
    ELSE WriteTokenOf(Replay(SubSeq(ts, 1, Len(ts) - 1)), ts[Len(ts)]).parser

\* The automaton before the last token was written.
BeforeLast == Replay(SubSeq(parser.written, 1, Len(parser.written) - 1))

C21_WitnessClose ==
    /\ call.op = "close"
    /\ res = Ok
    /\ Len(parser.written) = 3
    /\ Len(ScriptOf(parser)) = 1
    /\ Replay(parser.written).mode = "AfterOperand"

\* The terminals of the written tokens.
WrittenTerminals ==
    [i \in 1..Len(parser.written) |-> parser.written[i].terminal_id]

\* The last written token.
LastWritten == parser.written[Len(parser.written)]

\* The number of written tokens of the terminal.
Count(t) == Cardinality({i \in 1..Len(parser.written) :
                            parser.written[i].terminal_id = t})

\* The written tokens stop in the middle of a construct: a brace is left
\* open, or the last token is one that something must follow (a binary or
\* prefix operator, throw, a label's colon, a loop or function head).
StopsInConstruct ==
    LET w == parser.written
        n == Len(w)
    IN  /\ n > 0
        /\ \/ Count("OpenBrace") > Count("CloseBrace")
           \/ w[n].terminal_id \in {"Plus", "Throw", "FunctionHead", "Colon",
                                    "WhileHead"}
           \/ /\ w[n].terminal_id = "Incr"
              /\ \/ n = 1
                 \/ w[n].is_on_new_line
                 \/ w[n - 1].terminal_id # "Name"

\* The tokens that cannot follow a number on the same line.
NotAfterOperand ==
    {"Num", "Name", "Yield", "OpenBrace", "WhileHead", "Break", "Continue",
     "Throw", "FunctionHead"}

\* C22: at the end of input a missing statement terminator is inserted when
\* the tokens form complete statements (`3 + 4` closes with one expression
\* statement and can_close is true after it); close returns UnexpectedEnd
\* exactly when the input stops in the middle of a construct (`3 +`, `{`,
\* `{;`), and a close that returns Ok has completed every pending statement
\* into the script; and a token that cannot follow a number is a SyntaxError on the same
\* line (`3 4`), while after a line terminator the statement is ended before
\* it.
C22_TerminatorInsertedAtEnd ==
    /\ call.op = "close" =>
           /\ res = Error("UnexpectedEnd") <=> StopsInConstruct
           /\ res = Ok =>
                  /\ parser.mode = "Start"
                  /\ Len(parser.frames) = 1
                  /\ parser.written # <<>> => ScriptOf(parser) # <<>>
           /\ WrittenTerminals = <<"Num", "Plus", "Num">> =>
                  /\ res = Ok
                  /\ ScriptOf(parser) =
                         <<Statement("ExpressionStatement", "", <<>>, 1,
                                     parser.written)>>
           /\ WrittenTerminals \in {<<"Num", "Plus">>, <<"OpenBrace">>,
                                    <<"OpenBrace", "Semi">>} =>
                  res = Error("UnexpectedEnd")
    /\ call.op = "can_close" =>
           /\ res = OkBool(~StopsInConstruct)
           /\ WrittenTerminals = <<"Num", "Plus", "Num">> => res = OkBool(TRUE)
    /\ (/\ call.op = "write_token"
        /\ Len(parser.written) >= 2
        /\ parser.written[Len(parser.written) - 1].terminal_id = "Num"
        /\ LastWritten.terminal_id \in NotAfterOperand) =>
           res = IF LastWritten.is_on_new_line THEN Ok ELSE Error("SyntaxError")

\* `3 + 4` is closed: the terminator is inserted.
C22_Witness ==
    /\ call.op = "close"
    /\ WrittenTerminals = <<"Num", "Plus", "Num">>
    /\ res = Ok

\* `{;` is closed.
C22_WitnessUnexpectedEnd ==
    /\ call.op = "close"
    /\ WrittenTerminals = <<"OpenBrace", "Semi">>
    /\ res = Error("UnexpectedEnd")

\* `3 4` on one line.
C22_WitnessSyntaxError ==
    /\ call.op = "write_token"
    /\ WrittenTerminals = <<"Num", "Num">>
    /\ ~LastWritten.is_on_new_line
    /\ res = Error("SyntaxError")

\* can_close after `2 + 2` and the end of the line.
C22_WitnessCanClose ==
    /\ call.op = "can_close"
    /\ WrittenTerminals = <<"Num", "Plus", "Num">>
    /\ res = OkBool(TRUE)

\* The written tokens are `l: while (true) break m;` or the same with
\* continue.
LabelledJumpWritten ==
    /\ Len(parser.written) = 6
    /\ WrittenTerminals[1] = "Name"
    /\ WrittenTerminals[2] = "Colon"
    /\ WrittenTerminals[3] = "WhileHead"
    /\ WrittenTerminals[4] \in {"Break", "Continue"}
    /\ WrittenTerminals[5] = "Name"
    /\ WrittenTerminals[6] = "Semi"

\* The written tokens are `function f() { return a; }`.
ReturnWritten ==
    WrittenTerminals = <<"FunctionHead", "OpenBrace", "Return", "Name", "Semi",
                         "CloseBrace">>

\* The statement of the written break or continue token, with the label.
JumpStatement(tok, label) ==
    Statement(IF tok.terminal_id = "Break" THEN "BreakStatement"
              ELSE "ContinueStatement", label, <<>>, tok.offset, <<>>)

\* `l: while (true) s` for the written label and loop head.
LabelledLoop(l, head, s) ==
    Statement("LabelledStatement", l.value,
              <<Statement("WhileStatement", "", <<s>>, head.offset, <<>>)>>,
              l.offset, <<>>)

\* The expression statement of the written tokens.
ExpressionOf(toks) ==
    Statement("ExpressionStatement", "", <<>>, toks[1].offset, toks)

\* The return statement of the written tokens.
ReturnOf(tok, toks) == Statement("ReturnStatement", "", <<>>, tok.offset, toks)

\* C24: a name on the line of break or continue is the label of the jump,
\* resolved by the enclosing label of that name (no site is left and close
\* returns no error; under a label of another name the jump is unhandled);
\* after a line terminator the jump is unlabelled and the
\* name is an expression statement of its own, one more statement in the
\* list. The same holds for the operand of return. A line terminator after
\* throw is a SyntaxError, and before ++ after a name it leaves the input
\* incomplete.
C24_NoLineTerminatorHere ==
    LET w == parser.written
        n == Len(w)
    IN  /\ (call.op = "close" /\ LabelledJumpWritten /\ ~w[5].is_on_new_line
            /\ w[5].value = w[1].value) =>
               /\ res = Ok
               /\ parser.breaks = <<>>
               /\ ScriptOf(parser) =
                      <<LabelledLoop(w[1], w[3], JumpStatement(w[4], w[5].value))>>
        /\ (call.op = "close" /\ LabelledJumpWritten /\ ~w[5].is_on_new_line
            /\ w[5].value # w[1].value) =>
               res = Error("UnhandledBreakOrContinue")
        /\ (call.op = "close" /\ LabelledJumpWritten /\ w[5].is_on_new_line) =>
               /\ res = Ok
               /\ parser.breaks = <<>>
               /\ ScriptOf(parser) =
                      <<LabelledLoop(w[1], w[3], JumpStatement(w[4], "")),
                        ExpressionOf(<<w[5]>>)>>
        /\ (call.op = "close" /\ ReturnWritten) =>
               /\ res = Ok
               /\ Len(ScriptOf(parser)) = 1
               /\ ScriptOf(parser)[1].t = "FunctionDeclaration"
               /\ ScriptOf(parser)[1].body =
                      IF w[4].is_on_new_line
                      THEN <<ReturnOf(w[3], <<>>), ExpressionOf(<<w[4]>>)>>
                      ELSE <<ReturnOf(w[3], <<w[4]>>)>>
        /\ (call.op = "write_token" /\ n >= 2 /\ w[n - 1].terminal_id = "Throw"
            /\ w[n].is_on_new_line) =>
               res = Error("SyntaxError")
        /\ (n >= 2 /\ w[n - 1].terminal_id = "Name" /\ w[n].terminal_id = "Incr"
            /\ w[n].is_on_new_line) =>
               /\ call.op = "write_token" => res = Ok
               /\ call.op = "can_close" => res = OkBool(FALSE)
               /\ call.op = "close" => res = Error("UnexpectedEnd")
        /\ (call.op = "close" /\ WrittenTerminals = <<"Name", "Incr">>
            /\ ~w[2].is_on_new_line) =>
               /\ res = Ok
               /\ ScriptOf(parser) = <<ExpressionOf(w)>>

\* `l: while (true) break l;` on one line is closed.
C24_Witness ==
    /\ call.op = "close"
    /\ LabelledJumpWritten
    /\ ~parser.written[5].is_on_new_line
    /\ parser.written[5].value = parser.written[1].value
    /\ parser.written[4].terminal_id = "Break"
    /\ res = Ok

\* `l: while (true) continue` and `l;` on the next line are closed.
C24_WitnessNewLine ==
    /\ call.op = "close"
    /\ LabelledJumpWritten
    /\ parser.written[5].is_on_new_line
    /\ parser.written[4].terminal_id = "Continue"
    /\ Len(ScriptOf(parser)) = 2

\* `function f() { return` and `a; }` on the next line are closed.
C24_WitnessReturn ==
    /\ call.op = "close"
    /\ ReturnWritten
    /\ parser.written[4].is_on_new_line
    /\ Len(ScriptOf(parser)[1].body) = 2

\* throw and a name on the next line.
C24_WitnessThrow ==
    /\ call.op = "write_token"
    /\ WrittenTerminals = <<"Throw", "Name">>
    /\ LastWritten.is_on_new_line
    /\ res = Error("SyntaxError")

\* A name and ++ on the next line: the input is incomplete.
C24_WitnessPostfix ==
    /\ call.op = "close"
    /\ WrittenTerminals = <<"Name", "Incr">>
    /\ LastWritten.is_on_new_line
    /\ res = Error("UnexpectedEnd")

\* C25: the validator reports the input incomplete only when
\* is_partial_script returns Ok(true), i.e. when the input has no error and
\* stops in the middle of a construct; for Ok(false) and for every parse
\* error (a syntax error, NotImplemented) it reports the input valid, and the
\* parse_script that read_print_loop then runs returns that error.
C25_IncompleteOnlyWhenPartial ==
    /\ call.op = "validate" =>
           /\ res.msg \in {"Incomplete", "Valid"}
           /\ res.msg = "Incomplete" <=>
                  IsPartialScript(Replay(parser.written)) = OkBool(TRUE)
           /\ IsErr(parser.error) => res.msg = "Valid"
           /\ parser.error = Ok =>
                  res.msg = IF StopsInConstruct THEN "Incomplete" ELSE "Valid"
    /\ (call.op = "read_print_loop" /\ IsErr(Replay(parser.written).error)) =>
           res = Replay(parser.written).error

\* An input with a syntax error was reported valid and its parse returns the
\* error.
C25_Witness ==
    /\ call.op = "read_print_loop"
    /\ res = Error("SyntaxError")
    /\ Replay(parser.written).error = Error("SyntaxError")

\* An input that is not implemented is reported valid.
C25_WitnessNotImplemented ==
    /\ call.op = "validate"
    /\ parser.error.tag = "NotImplemented"
    /\ res.msg = "Valid"

\* An input that stops in the middle of a construct is reported incomplete.
C25_WitnessIncomplete ==
    /\ call.op = "validate"
    /\ IsPartialScript(parser) = OkBool(TRUE)
    /\ res.msg = "Incomplete"

\* A complete input is reported valid.
C25_WitnessComplete ==
    /\ call.op = "validate"
    /\ parser.written # <<>>
    /\ IsPartialScript(parser) = OkBool(FALSE)
    /\ res.msg = "Valid"

\* The source of the chunks of the last try_parse: the chunks one after
\* the other.
RECURSIVE SourceOf(_)
SourceOf(code) == IF code = <<>> THEN <<>> ELSE Head(code) \o SourceOf(Tail(code))

\* The token begins at its offset in the text: the character there is one
\* that begins a token of its terminal.
BeginsAt(text, tok) ==
    /\ tok.offset + 1 \in 1..Len(text)
    /\ text[tok.offset + 1] \in
           CASE tok.terminal_id \in {"Name", "Yield"} -> Letters
             [] tok.terminal_id = "Num" -> Digits
             [] tok.terminal_id \in {"Plus", "Incr"} -> {"+"}
             [] tok.terminal_id = "Semi" -> {";"}
             [] OTHER -> {":", "{", "}"}

C23_WitnessKeywordPrefix ==
    /\ call.op = "try_parse"
    /\ call.src = <<<<"y", "i", "e", "l", "d">>, <<"s", ";">>>>
    /\ res = Ok
    /\ parser.written[1].terminal_id = "Name"
    /\ parser.written[1].value = "yields"

\* `a++` with a chunk boundary inside the operator.
C23_WitnessPunctuator ==
    /\ call.op = "try_parse"
    /\ call.src = <<<<"a", "+">>, <<"+">>>>
    /\ res = Ok
    /\ parser.written[2].terminal_id = "Incr"

\* The last call was a check of a function with its parameters.
FunctionCheckOps == {"check_function_bindings", "check_unique_function_bindings"}

\* The record was made before the function's parameters start.
BeforeFunction(info) == info.offset < call.start

\* C31: after a successful check_function_bindings or
\* check_unique_function_bindings the store holds no binding and no label at
\* or after start_of_param_offset, and the bindings and labels before it are
\* those that were there before the call, in the same order.
C31_FunctionScopePopped ==
    (call.op \in FunctionCheckOps /\ res = Ok) =>
        /\ \A i \in 1..Len(bindings) : bindings[i].offset < call.start
        /\ \A i \in 1..Len(labels) : labels[i].offset < call.start
        /\ bindings = SelectSeq(pbind, BeforeFunction)
        /\ labels = SelectSeq(plabels, BeforeFunction)

\* A function is checked with a binding before it and a binding in it.
C31_Witness ==
    /\ call.op \in FunctionCheckOps
    /\ res = Ok
    /\ Len(pbind) = 2
    /\ Len(bindings) = 1

\* A function is checked with a binding before it and a label in it.
C31_WitnessLabel ==
    /\ call.op = "check_function_bindings"
    /\ res = Ok
    /\ Len(plabels) = 1
    /\ labels = <<>>
    /\ Len(pbind) = 1
    /\ bindings = pbind

\* A function is checked with a label before it.
C31_WitnessLabelKept ==
    /\ call.op = "check_unique_function_bindings"
    /\ res = Ok
    /\ Len(plabels) = 1
    /\ labels = plabels
    /\ Len(pbind) = 1
    /\ bindings = <<>>

\* The last call was the check at the end of a script or a module.
ProgramCheckOps == {"check_script_bindings", "check_module_bindings"}

\* C32: after check_script_bindings or check_module_bindings has returned
\* Ok the store holds no binding and no label, whatever notifications and
\* checks of nested scopes came before.
C32_StoreEmptyAfterProgram ==
    (call.op \in ProgramCheckOps /\ res = Ok) =>
        /\ bindings = <<>>
        /\ labels = <<>>

\* A script with a binding and a label is checked.
C32_Witness ==
    /\ call.op = "check_script_bindings"
    /\ res = Ok
    /\ pbind # <<>>
    /\ plabels # <<>>
    /\ bindings = <<>>
    /\ labels = <<>>

\* A module with two bindings is checked.
C32_WitnessModule ==
    /\ call.op = "check_module_bindings"
    /\ res = Ok
    /\ Len(pbind) = 2
    /\ bindings = <<>>

\* The binding kinds of function declarations, and the declaration kind
\* declare_block gives each.
FunctionBindingKinds == {"Function", "AsyncOrGenerator"}
LexicalKindOf(kind) ==
    IF kind = "Function" THEN "LexicalFunction" ELSE "LexicalAsyncOrGenerator"

\* The last call checked a script, or a function whose body holds the whole
\* store of two bindings of one name.
TwoAtBodyLevel ==
    /\ Len(pbind) = 2
    /\ pbind[1].name = pbind[2].name
    /\ \/ call.op = "check_script_bindings"
       \/ call.op \in FunctionCheckOps /\ call.end <= pbind[1].offset

\* The last call checked a Block or a CaseBlock holding the whole store of
\* two bindings of one name.
TwoInBlock ==
    /\ Len(pbind) = 2
    /\ pbind[1].name = pbind[2].name
    /\ call.op \in {"check_block_bindings", "check_case_block_binding"}
    /\ call.start <= pbind[1].offset

\* The declaration kind the second of the two bindings was declared with at
\* body level, and inside a block.
BodyKindOf(kind) == IF kind \in FunctionBindingKinds THEN "BodyLevelFunction" ELSE kind
BlockKindOf(kind) == IF kind \in FunctionBindingKinds THEN LexicalKindOf(kind) ELSE kind

\* C33: at script and function-body level a function declaration (plain,
\* async or generator) is a var-style BodyLevelFunction: with another
\* function or a var of the same name it is accepted in either order, with
\* a let, const or class of the same name it gives DuplicateBinding in
\* either order.  In a Block or CaseBlock it is the lexical LexicalFunction
\* or LexicalAsyncOrGenerator, and collides with a var of the same name.
C33_FunctionDeclarationLevel ==
    /\ (/\ TwoAtBodyLevel
        /\ {pbind[1].kind, pbind[2].kind} \subseteq FunctionBindingKinds \cup {"Var"}
        /\ {pbind[1].kind, pbind[2].kind} \cap FunctionBindingKinds # {})
           => res = Ok
    /\ (/\ TwoAtBodyLevel
        /\ \E i \in 1..2 : /\ pbind[i].kind \in FunctionBindingKinds
                           /\ pbind[3 - i].kind \in {"Let", "Const", "Class"})
           => /\ res.tag = "DuplicateBinding"
              /\ res.name = pbind[1].name
              /\ res.kind1 = BodyKindOf(pbind[1].kind)
              /\ res.kind2 = BodyKindOf(pbind[2].kind)
    /\ (/\ TwoInBlock
        /\ \E i \in 1..2 : /\ pbind[i].kind \in FunctionBindingKinds
                           /\ pbind[3 - i].kind = "Var")
           => /\ res.tag = "DuplicateBinding"
              /\ res.name = pbind[1].name
              /\ res.kind1 = BlockKindOf(pbind[1].kind)
              /\ res.kind2 = BlockKindOf(pbind[2].kind)

\* A script declares a var and then a function of the same name.
C33_Witness ==
    /\ TwoAtBodyLevel
    /\ call.op = "check_script_bindings"
    /\ pbind[1].kind = "Var"
    /\ pbind[2].kind = "Function"
    /\ res = Ok

\* A function body declares two functions of one name.
C33_WitnessTwoFunctions ==
    /\ TwoAtBodyLevel
    /\ call.op = "check_function_bindings"
    /\ pbind[1].kind = "AsyncOrGenerator"
    /\ pbind[2].kind = "Function"
    /\ res = Ok

\* A function body declares a function and then a let of the same name.
C33_WitnessLet ==
    /\ TwoAtBodyLevel
    /\ call.op \in FunctionCheckOps
    /\ pbind[1].kind = "Function"
    /\ pbind[2].kind = "Let"
    /\ res.tag = "DuplicateBinding"
    /\ res.kind1 = "BodyLevelFunction"

\* A script declares a class and then a generator of the same name.
C33_WitnessClassFirst ==
    /\ TwoAtBodyLevel
    /\ call.op = "check_script_bindings"
    /\ pbind[1].kind = "Class"
    /\ pbind[2].kind = "AsyncOrGenerator"
    /\ res.tag = "DuplicateBinding"
    /\ res.kind2 = "BodyLevelFunction"

\* A block declares a function and then a var of the same name.
C33_WitnessBlock ==
    /\ TwoInBlock
    /\ call.op = "check_block_bindings"
    /\ pbind[1].kind = "Function"
    /\ pbind[2].kind = "Var"
    /\ res.tag = "DuplicateBinding"
    /\ res.kind1 = "LexicalFunction"

\* A case block declares a var and then an async function of the same name.
C33_WitnessCaseBlock ==
    /\ TwoInBlock
    /\ call.op = "check_case_block_binding"
    /\ pbind[1].kind = "Var"
    /\ pbind[2].kind = "AsyncOrGenerator"
    /\ res.tag = "DuplicateBinding"
    /\ res.kind2 = "LexicalAsyncOrGenerator"

\* The last call declared, in a function body, a name that is a parameter
\* of the function.
FunctionBodyTypes == {"FunctionBody", "UniqueFunctionBody"}
ParameterNameDeclared(op) ==
    /\ call.op = op
    /\ prev.type \in FunctionBodyTypes
    /\ Has(prev.param, call.name)

\* C34: in a function body, of a function with plain or with unique formal
\* parameters, declare_lex of a parameter name returns DuplicateBinding and
\* declare_var of a parameter name (var or body-level function) is accepted,
\* whether the parameter list is simple or not.
C34_ParameterNameInBody ==
    /\ ParameterNameDeclared("declare_lex") =>
           /\ res = DuplicateBinding(call.name, prev.param[call.name].kind,
                                     prev.param[call.name].offset,
                                     call.kind, call.offset)
           /\ res.kind1 = "FormalParameter"
           /\ ctx = prev
    /\ ParameterNameDeclared("declare_var") =>
           /\ res = Ok
           /\ ctx = [prev EXCEPT !.var = Insert(@, call.name,
                                                DeclarationInfo(call.kind, call.offset))]

\* A let of a parameter name in the body of a function with a non-simple
\* parameter list.
C34_Witness ==
    /\ ParameterNameDeclared("declare_lex")
    /\ prev.type = "FunctionBody"
    /\ ~prev.is_simple
    /\ call.kind = "Let"
    /\ res.tag = "DuplicateBinding"

\* A class of a parameter name in the body of a function with a simple
\* parameter list.
C34_WitnessSimple ==
    /\ ParameterNameDeclared("declare_lex")
    /\ prev.type = "FunctionBody"
    /\ prev.is_simple
    /\ call.kind = "Class"
    /\ res.tag = "DuplicateBinding"

\* A const of a parameter name in the body of a function with unique formal
\* parameters.
C34_WitnessUnique ==
    /\ ParameterNameDeclared("declare_lex")
    /\ prev.type = "UniqueFunctionBody"
    /\ call.kind = "Const"
    /\ res.tag = "DuplicateBinding"

\* A var of a parameter name in the body of a function with a non-simple
\* parameter list.
C34_WitnessVar ==
    /\ ParameterNameDeclared("declare_var")
    /\ prev.type = "FunctionBody"
    /\ ~prev.is_simple
    /\ call.kind = "Var"
    /\ res = Ok

\* A body-level function of a parameter name in the body of a function with
\* unique formal parameters.
C34_WitnessFunction ==
    /\ ParameterNameDeclared("declare_var")
    /\ prev.type = "UniqueFunctionBody"
    /\ call.kind = "BodyLevelFunction"
    /\ res = Ok

\* The last call declared, in a catch block, a lexical name that the catch
\* parameter binds.
CatchParameterNameDeclared ==
    /\ call.op = "declare_lex"
    /\ prev.type = "CatchBlock"
    /\ Has(prev.param, call.name)

\* The last call declared, in a catch parameter, a name the parameter
\* already binds.
CatchParameterNameRepeated ==
    /\ call.op = "declare"
    /\ prev.type = "CatchParameter"
    /\ Has(prev.param, call.name)

\* C35: in a catch clause declare_lex in the catch block of a name bound by
\* the catch parameter returns DuplicateBinding, whether the parameter is an
\* identifier or a pattern; the catch parameter rejects a name it binds
\* twice; check_catch_no_param_bindings treats the catch block exactly as
\* check_block_bindings treats a Block.
C35_CatchClause ==
    /\ CatchParameterNameDeclared =>
           /\ res.tag = "DuplicateBinding"
           /\ res.name = call.name
           /\ res.kind1 = "CatchParameter"
           /\ res.kind2 = call.kind
           /\ ctx = prev
    /\ CatchParameterNameRepeated =>
           /\ res.tag = "DuplicateBinding"
           /\ res.name = call.name
           /\ ctx = prev
    /\ call.op = "check_catch_no_param_bindings" =>
           Out(bindings, res) = CheckBlockBindingsOf(pbind, call.start)

\* A let in the catch block repeats the name of a simple catch parameter.
C35_Witness ==
    /\ CatchParameterNameDeclared
    /\ prev.is_simple
    /\ call.kind = "Let"
    /\ res.tag = "DuplicateBinding"

\* A function in the catch block repeats a name of a catch parameter pattern.
C35_WitnessPattern ==
    /\ CatchParameterNameDeclared
    /\ ~prev.is_simple
    /\ call.kind = "LexicalFunction"
    /\ res.tag = "DuplicateBinding"

\* A catch parameter pattern binds a name twice.
C35_WitnessTwice ==
    /\ CatchParameterNameRepeated
    /\ ~prev.is_simple
    /\ res.tag = "DuplicateBinding"

\* A catch block without parameter declares a let and a var of different
\* names: the let is popped, the var stays.
C35_WitnessNoParam ==
    /\ call.op = "check_catch_no_param_bindings"
    /\ Len(pbind) = 2
    /\ call.start <= pbind[1].offset
    /\ pbind[1].kind = "Let"
    /\ pbind[2].kind = "Var"
    /\ res = Ok
    /\ bindings = <<pbind[2]>>

\* A catch block without parameter declares a let and a var of one name.
C35_WitnessNoParamDuplicate ==
    /\ call.op = "check_catch_no_param_bindings"
    /\ Len(pbind) = 2
    /\ call.start <= pbind[1].offset
    /\ pbind[1].kind = "Let"
    /\ pbind[2].kind = "Var"
    /\ res.tag = "DuplicateBinding"
    /\ bindings = pbind

\* The last call refined an array literal whose elements are identifiers,
\* holes and literals only, so that a literal is its only fault.
ArrayLiteralOfNamesAndLiterals ==
    /\ RefinedParameter("ArrayExpression")
    /\ \A i \in 1..Len(OnlyParameter.kids) :
         OnlyParameter.kids[i].t \in {"IdentifierExpression", "Elision",
                                      "LiteralExpression"}

\* The positions of the literals of the refined array literal.
LiteralPositions ==
    {i \in 1..Len(OnlyParameter.kids) : OnlyParameter.kids[i].t = "LiteralExpression"}

\* C36: refining an array literal into a binding pattern validates every
\* element, the last one included: it returns Ok only if every element that
\* is not a hole is a valid binding, and InvalidParameter if any element, the
\* final one included, is another kind of expression.
C36_EveryElementValidated ==
    ArrayLiteralOfNamesAndLiterals =>
        res = IF LiteralPositions # {} THEN Error("InvalidParameter") ELSE Ok

\* What the code does: an element that is no binding is rejected in every
\* position but the last, which split_last() sets aside and only looks at
\* for a spread.
C36_ElementsBeforeLastValidated ==
    ArrayLiteralOfNamesAndLiterals =>
        res = IF \E i \in LiteralPositions : i < Len(OnlyParameter.kids)
              THEN Error("InvalidParameter")
              ELSE Ok

\* C36, the rest element: a final rest element that carries a default, after
\* plain elements, returns ArrayBindingPatternWithInvalidRest.
C36_RestWithDefault ==
    (/\ RefinedParameter("ArrayExpression")
     /\ Len(OnlyParameter.kids) > 0
     /\ PlainBefore(OnlyParameter, Len(OnlyParameter.kids))
     /\ OnlyParameter.kids[Len(OnlyParameter.kids)].t = "SpreadElement"
     /\ OnlyParameter.kids[Len(OnlyParameter.kids)].kids[1].t = "AssignmentExpression"
     /\ OnlyParameter.kids[Len(OnlyParameter.kids)].kids[1].kids[1].t
            = "AssignmentTargetIdentifier")
        => res = Error("ArrayBindingPatternWithInvalidRest")

\* `([a, 1]) => {}` was accepted.
C36_LastLiteralAccepted ==
    /\ ArrayLiteralOfNamesAndLiterals
    /\ Len(OnlyParameter.kids) = 2
    /\ LiteralPositions = {2}
    /\ res = Ok

\* `([1, a]) => {}` was rejected.
C36_FirstLiteralRejected ==
    /\ ArrayLiteralOfNamesAndLiterals
    /\ Len(OnlyParameter.kids) = 2
    /\ LiteralPositions = {1}
    /\ res = Error("InvalidParameter")

\* `([a, ...b = 1]) => {}` was rejected.
C36_RestWithDefaultRejected ==
    /\ RefinedParameter("ArrayExpression")
    /\ Len(OnlyParameter.kids) = 2
    /\ OnlyParameter.kids[1].t = "IdentifierExpression"
    /\ OnlyParameter.kids[2].t = "SpreadElement"
    /\ OnlyParameter.kids[2].kids[1].t = "AssignmentExpression"
    /\ res = Error("ArrayBindingPatternWithInvalidRest")

\* C37: in a module, add_exported_name returns DuplicateExport(name, first
\* offset, new offset) the second time a name is exported and leaves the
\* first record in place; check_exported_name returns MissingExport for an
\* exported binding if and only if the name is in neither the var names nor
\* the lexical names of the module at the time of the check.
C37_ModuleExports ==
    /\ call.op = "add_exported_name" =>
           IF Has(prev.exported_names, call.name)
           THEN /\ res = DuplicateExport(call.name, prev.exported_names[call.name],
                                         call.offset)
                /\ ctx = prev
           ELSE /\ res = Ok
                /\ ctx = [prev EXCEPT !.exported_names =
                              Insert(@, call.name, call.offset)]
    /\ call.op = "check_exported_name" =>
           /\ ctx = prev
           /\ res.tag \in {"Ok", "MissingExport"}
           /\ res.tag = "MissingExport" <=>
                  \E name \in DOMAIN ctx.exported_bindings :
                      ~Has(ctx.var, name) /\ ~Has(ctx.lex, name)
           /\ res.tag = "MissingExport" =>
                  /\ Has(ctx.exported_bindings, res.name)
                  /\ res.off1 = ctx.exported_bindings[res.name]
                  /\ ~Has(ctx.var, res.name)
                  /\ ~Has(ctx.lex, res.name)

\* A name is exported a second time, after another export in between.
C37_Witness ==
    /\ call.op = "add_exported_name"
    /\ res = DuplicateExport(call.name, 1, 3)
    /\ ctx.exported_names[call.name] = 1
    /\ DOMAIN ctx.exported_names = Names

\* An exported binding that was never declared is reported.
C37_WitnessMissing ==
    /\ call.op = "check_exported_name"
    /\ res.tag = "MissingExport"
    /\ ctx.var # EmptyMap
    /\ ~Has(ctx.var, res.name)

\* An exported binding declared with var passes the check.
C37_WitnessVar ==
    /\ call.op = "check_exported_name"
    /\ res = Ok
    /\ \E name \in DOMAIN ctx.exported_bindings : Has(ctx.var, name)

\* An exported binding declared lexically passes the check.
C37_WitnessLex ==
    /\ call.op = "check_exported_name"
    /\ res = Ok
    /\ \E name \in DOMAIN ctx.exported_bindings : Has(ctx.lex, name)

\* The names an escaped identifier may not spell without consequence: the
\* always-reserved words, the strict-mode reserved words, yield and await.
SpecialNames == ReservedNames \cup StrictReservedNames \cup {"yield", "await"}

\* C38: check_identifier returns InvalidIdentifier(name, start offset of the
\* token) for a NameWithEscape token whose value is an always-reserved word,
\* and Ok for every plain Name token and for every escaped name that is not
\* always-reserved, strict-reserved, yield or await.  on_binding_identifier
\* appends exactly one binding (kind Unknown, the token's name and start
\* offset) when its check succeeds and nothing when it fails.
C38_IdentifierAndBinding ==
    /\ call.op = "check_identifier" =>
           /\ (call.kind = "NameWithEscape" /\ call.name \in ReservedNames) =>
                  res = InvalidIdentifier(call.name, call.offset)
           /\ call.kind = "Name" => res = Ok
           /\ (call.kind = "NameWithEscape" /\ call.name \notin SpecialNames) =>
                  res = Ok
    /\ call.op = "on_binding_identifier" =>
           bindings = IF res = Ok
                      THEN Append(pbind, BindingInfo(call.name, call.offset, "Unknown"))
                      ELSE pbind

\* The escaped reserved word `class` is rejected at its offset.
C38_Witness ==
    /\ call.op = "check_identifier"
    /\ call.kind = "NameWithEscape"
    /\ call.name = "class"
    /\ call.offset = 2
    /\ res = InvalidIdentifier("class", 2)

\* The plain name `arguments` is accepted.
C38_WitnessName ==
    /\ call.op = "check_identifier"
    /\ call.kind = "Name"
    /\ call.name = "arguments"
    /\ res = Ok

\* The escaped name `eval` is accepted.
C38_WitnessEscaped ==
    /\ call.op = "check_identifier"
    /\ call.kind = "NameWithEscape"
    /\ call.name = "eval"
    /\ res = Ok

\* A second binding identifier is appended to the store.
C38_WitnessAppended ==
    /\ call.op = "on_binding_identifier"
    /\ res = Ok
    /\ Len(pbind) = 1
    /\ Len(bindings) = 2
    /\ bindings[2] = BindingInfo(call.name, 2, "Unknown")

\* A rejected binding identifier leaves the store of one binding as it was.
C38_WitnessRejected ==
    /\ call.op = "on_binding_identifier"
    /\ res.tag = "InvalidIdentifier"
    /\ Len(pbind) = 1
    /\ bindings = pbind

\* The last call declared var-style a name that the context had neither
\* declared lexically nor bound in the head of its for statement or in its
\* catch parameter.
VarOfFreeName ==
    /\ call.op = "declare_var"
    /\ ~Has(prev.lex, call.name)
    /\ ~(prev.type \in {"LexicalForBody", "CatchBlock"} /\ Has(prev.param, call.name))

\* The last call declared var-style a name already declared var-style.
VarRepeated == VarOfFreeName /\ Has(prev.var, call.name)

\* C39: declaring a name var-style more than once never fails, in any rule
\* context: a declare_var of a name with no lexical and no head declaration
\* returns Ok, and the table keeps one entry for the name, holding the kind
\* and the offset of the latest declaration.
C39_VarRedeclared ==
    VarOfFreeName =>
        /\ res = Ok
        /\ ctx = [prev EXCEPT !.var = Insert(@, call.name,
                                             DeclarationInfo(call.kind, call.offset))]
        /\ ctx.var[call.name] = DeclarationInfo(call.kind, call.offset)
        /\ DOMAIN ctx.var = DOMAIN prev.var \cup {call.name}
        /\ \A name \in DOMAIN prev.var \ {call.name} : ctx.var[name] = prev.var[name]

\* A block declares a var a third time.
C39_Witness ==
    /\ VarRepeated
    /\ prev.type = "Block"
    /\ prev.var[call.name].offset = 2
    /\ ctx.var[call.name].offset = 3
    /\ res = Ok

\* A script declares a function over a var of the same name.
C39_WitnessScript ==
    /\ VarRepeated
    /\ prev.type = "Script"
    /\ prev.var[call.name].kind = "Var"
    /\ call.kind = "BodyLevelFunction"
    /\ ctx.var[call.name].kind = "BodyLevelFunction"
    /\ res = Ok

\* The other contexts redeclare a var: case block, module, function bodies,
\* catch block and the body of a lexical for statement.
C39_WitnessCaseBlock == VarRepeated /\ prev.type = "CaseBlock" /\ res = Ok
C39_WitnessModule == VarRepeated /\ prev.type = "Module" /\ res = Ok
C39_WitnessFunctionBody == VarRepeated /\ prev.type = "FunctionBody" /\ res = Ok
C39_WitnessUniqueFunctionBody ==
    VarRepeated /\ prev.type = "UniqueFunctionBody" /\ res = Ok
C39_WitnessCatchBlock == VarRepeated /\ prev.type = "CatchBlock" /\ res = Ok
C39_WitnessForBody == VarRepeated /\ prev.type = "LexicalForBody" /\ res = Ok

\* The sums, as numbers, of the counters of a sequence of statistics.
RECURSIVE SumAttempted(_)
SumAttempted(files) ==
    IF files = <<>> THEN 0 ELSE files[1].files_attempted + SumAttempted(Tail(files))

RECURSIVE SumParsed(_)
SumParsed(files) ==
    IF files = <<>> THEN 0 ELSE files[1].files_parsed + SumParsed(Tail(files))

RECURSIVE SumBytes(_)
SumBytes(files) ==
    IF files = <<>> THEN 0 ELSE files[1].total_bytes + SumBytes(Tail(files))

\* The statistics added one by one to DemoStats::new(), last first.
RECURSIVE AddedLastFirst(_, _)
AddedLastFirst(files, overflow_checks) ==
    IF files = <<>> THEN DemoStatsNew
    ELSE DemoStatsAdd(AddedLastFirst(Tail(files), overflow_checks), files[1],
                      overflow_checks).stats

\* A run of the driver whose last add has returned.
Summed == ctx.type = "DemoStats" /\ res = Ok

C40_WitnessWrapped ==
    /\ Summed
    /\ ~ctx.overflow_checks
    /\ Len(ctx.files) = 2
    /\ SumBytes(ctx.files) = U64Max + 1
    /\ ctx.summary.total_bytes = 0

\* With overflow checks the add of the second file has panicked.
C40_WitnessPanicked ==
    /\ ctx.type = "DemoStats"
    /\ ctx.overflow_checks
    /\ call.op = "parse_file"
    /\ Len(ctx.files) = 2
    /\ res.tag = "Panic"

====
